---- MODULE Spec2Model ----
(***************************************************************************)
(* A model of the guitar tablature pipeline: note segmentation             *)
(* (pitch_detector.py), fretboard mapping (tab_generator.py), the          *)
(* tablature text codec and synthesizer (tab_synth.py, tab_refiner.py)     *)
(* and the synthesis parameter search (synth_matcher.py).                  *)
(*                                                                         *)
(* Units.  Times are counted in samples at the detector's sample rate      *)
(* (librosa.frames_to_time gives frame i the time i * hop_length / sr, so  *)
(* frame i sits at sample i * hop_length); thresholds given in seconds are *)
(* given here in samples.  A frequency is represented by the value         *)
(* librosa.hz_to_midi gives it, in half semitones (138 is MIDI 69.0,       *)
(* 139 is MIDI 69.5); NoFreq stands for None, NaN or a frequency <= 0.     *)
(***************************************************************************)
EXTENDS Integers, Sequences, FiniteSets, TLC

VARIABLES
    frames,      \* pitch_detector: the per-frame stream (f0, voiced_probs)
    segpc,       \* "input" while the stream is being given, "done" after extraction
    segparams,   \* min_duration, min_voiced_prob, merge_gap of the extraction
    rawnotes,    \* the list `notes` before _merge_adjacent_notes is applied
    notes,       \* the list returned by extract_notes_from_audio
    mlist,       \* _merge_adjacent_notes: the note list given to it
    mgap,        \* its merge_gap
    mout,        \* the list it returned
    mpc,         \* "input" while the list is being given, "done" after the merge
    tnotes,      \* tab_generator: the note list given to generate_tabs
    max_fret,    \* GuitarTabGenerator.max_fret
    tabs,        \* GuitarTabGenerator.tabs
    last_position, \* GuitarTabGenerator._last_position
    placed,      \* the (string, fret) chosen for each placed note, in order
    tpc,         \* "input" while the list is being given, "loaded" when it is
                 \* complete, "done" after generate_tabs, "formatted" after
                 \* format_tabs_as_text
    gpc,         \* gui_app: where each worker thread is in its task()
    gjob,        \* the max_fret a worker read from the form and the notes it extracts
    gi,          \* a worker's index in the note loop of generate_tabs
    gpositions,  \* a worker's local `positions`
    gpos,        \* a worker's local (string, fret)
    gplaced,     \* the (string, fret) a worker chose for each of its notes
    gread,       \* the self.tab_gen.tabs a worker's format_tabs_as_text read
    cgrid,       \* codec: a well-formed grid, six rows of tokens
    ccols,       \* its column count
    ctext,       \* tablature text (a sequence of characters)
    cparsed,     \* what parse_tabs_text returned for ctext: (grid, cols), or an error
    synth,       \* what synthesize_from_tabs_text did: its parameters, the plucks
                 \* it mixed, notes_count and the buffer length
    cpc,         \* "grid", "text", "given", "parsed", "synth", "refined", "rerun",
                 \* "rendered" or "error"
    otarget,     \* optimizer: the original recording, as far as scoring sees it
    opc,         \* "idle", "coarse", "refine" or "done"
    oi,          \* candidates of the current pass evaluated so far
    best_score,
    best_params,
    refine,      \* refine_steps, refine_notes, refine_decays, refine_gains, refine_trans
    oresult,     \* the MatchResult returned
    refined,     \* refiner: what refine_tabs_with_original did to the parsed text
    reparsed,    \* what parse_tabs_text returned for the refined text
    rerun,       \* what refine_tabs_with_original did to the refined text
    render,      \* the buffer synthesize_from_tabs_text mixed and scaled
    tprofile,    \* auto-tune: the recording, as far as the note counts see it
    tpreview,    \* the length of its preview in seconds
    taudio,      \* the length of the recording in seconds
    trest,       \* the notes the recording holds after the preview
    tunepc,      \* "idle", "search" or "done"
    ti,          \* candidates evaluated so far
    tbest,       \* best
    tresult,     \* the TuneResult returned
    f0,          \* smoother: the pitch track given to _smooth_f0
    smoothed,    \* what it returned
    smpc,        \* "input" or "done"
    display      \* tab_generator: what format_tabs_as_text made of self.tabs

segvars == <<frames, segpc, segparams, rawnotes, notes>>

mergevars == <<mlist, mgap, mout, mpc>>

tabvars == <<tnotes, max_fret, tabs, last_position, placed, tpc>>

guivars == <<gpc, gjob, gi, gpositions, gpos, gplaced, gread>>

codecvars == <<cgrid, ccols, ctext, cparsed, synth, cpc>>

optvars == <<otarget, opc, oi, best_score, best_params, refine, oresult>>

refvars == <<refined, reparsed, rerun>>

rendervars == <<render>>

tunevars == <<tprofile, tpreview, taudio, trest, tunepc, ti, tbest, tresult>>

smoothvars == <<f0, smoothed, smpc>>

fmtvars == <<display>>

vars == <<segvars, mergevars, tabvars, guivars, codecvars, optvars, refvars, rendervars, tunevars, smoothvars, fmtvars>>

\* What an action of one component leaves alone.
notseg == <<mergevars, tabvars, guivars, codecvars, optvars, refvars, rendervars, tunevars, smoothvars, fmtvars>>

notmerge == <<segvars, tabvars, guivars, codecvars, optvars, refvars, rendervars, tunevars, smoothvars, fmtvars>>

nottab == <<segvars, mergevars, guivars, codecvars, optvars, refvars, rendervars, tunevars, smoothvars, fmtvars>>

notcodec == <<segvars, mergevars, tabvars, guivars, optvars, refvars, rendervars, tunevars, smoothvars, fmtvars>>

notopt == <<segvars, mergevars, tabvars, guivars, codecvars, refvars, rendervars, tunevars, smoothvars, fmtvars>>

notrefine == <<segvars, mergevars, tabvars, guivars, optvars, rendervars, tunevars, smoothvars, fmtvars>>

notrender == <<segvars, mergevars, tabvars, guivars, optvars, refvars, tunevars, smoothvars, fmtvars>>

nottune == <<segvars, mergevars, tabvars, guivars, codecvars, optvars, refvars, rendervars, smoothvars, fmtvars>>

notsmooth == <<segvars, mergevars, tabvars, guivars, codecvars, optvars, refvars, rendervars, tunevars, fmtvars>>

notfmt == <<segvars, mergevars, guivars, codecvars, optvars, refvars, rendervars, tunevars, smoothvars>>

\* The GUI's workers share self.tab_gen: its tabs, _last_position, max_fret.
notgui == <<segvars, mergevars, tnotes, placed, tpc, codecvars, optvars, refvars, rendervars, tunevars, smoothvars, fmtvars>>

(***************************************************************************)
(* Bounds of the model.                                                    *)
(***************************************************************************)
MaxFrames == 4
MaxToneFrames == 8
MaxMergeNotes == 3
MaxTabNotes == 3
MaxRun == 6
MaxInterval == 5
MaxCols == 2
MaxRefineCols == 2
MaxTrack == 5
MaxRerunCols == 1

(***************************************************************************)
(* pitch_detector.py                                                       *)
(***************************************************************************)
HopLength == 512

SampleRate == 44100

DefaultMinDurationMs == 100

DefaultMinVoicedProb == 75

DefaultMergeGapMs == 50

SineSampleRate == 44100

SineDurationSec == 1

NoFreq == 0

None == <<>>

PitchClassNames == <<"C", "C#", "D", "D#", "E", "F", "F#", "G", "G#", "A", "A#", "B">>

\* librosa.midi_to_note: pitch class name followed by the octave number.
midi_to_note(m) == <<PitchClassNames[(m % 12) + 1], (m \div 12) - 1>>

\* librosa.note_to_midi: 12 * (octave + 1) + pitch class index.
note_to_midi(name) ==
    LET pc == CHOOSE k \in 1..12 : PitchClassNames[k] = name[1]
    IN  12 * (name[2] + 1) + (pc - 1)

\* Python's round() of a positive value given in half semitones (half to even).
PyRound(h) ==
    IF h % 2 = 0 THEN h \div 2
    ELSE IF ((h - 1) \div 2) % 2 = 0 THEN (h - 1) \div 2 ELSE (h + 1) \div 2

\* Python's int() of a positive value given in half semitones (truncation).
PyInt(h) == h \div 2

\* frequency_to_note: (note name, MIDI number), or (None, None).
frequency_to_note(h) ==
    IF h = NoFreq THEN <<None, None>>
    ELSE <<midi_to_note(PyRound(h)), PyInt(h)>>

\* librosa.frames_to_time for the i-th frame (1-based index), in samples.
FrameTime(i) == (i - 1) * HopLength

NoteDict(name, midi, freq, start, end) ==
    [note |-> name, midi |-> midi, frequency |-> freq,
     start_time |-> start, end_time |-> end, duration |-> end - start]

\* The locals of extract_notes_from_audio before the first frame.
LoopInit ==
    [current_note |-> None, current_midi |-> None, current_freq |-> NoFreq,
     note_start_time |-> 0, notes |-> <<>>]

\* CloseNote with the duration test the wrong way round.
CloseNote_Inverted(st, time, min_duration) ==
    IF time - st.note_start_time <= min_duration
    THEN Append(st.notes, NoteDict(st.current_note, st.current_midi, st.current_freq,
                                   st.note_start_time, time))
    ELSE st.notes

\* Closing the current note at `time`: appended when long enough.
CloseNote(st, time, min_duration) ==
    IF time - st.note_start_time >= min_duration
    THEN Append(st.notes, NoteDict(st.current_note, st.current_midi, st.current_freq,
                                   st.note_start_time, time))
    ELSE st.notes

\* LoopStep that does not restart note_start_time when the pitch changes
\* while a note is sounding.
LoopStep_StaleStart(st, i, fr, min_duration, min_voiced_prob) ==
    LET time == FrameTime(i)
        voiced_ok == fr.p >= min_voiced_prob
        res == frequency_to_note(IF voiced_ok THEN fr.f ELSE NoFreq)
        note_name == res[1]
        midi == res[2]
    IN  IF note_name = None
        THEN IF st.current_note # None
             THEN [st EXCEPT !.notes = CloseNote(st, time, min_duration),
                             !.current_note = None]
             ELSE st
        ELSE IF st.current_note # note_name
             THEN [st EXCEPT !.notes = IF st.current_note # None
                                       THEN CloseNote(st, time, min_duration)
                                       ELSE st.notes,
                             !.current_note = note_name,
                             !.current_midi = midi,
                             !.current_freq = fr.f,
                             !.note_start_time = IF st.current_note # None
                                                 THEN st.note_start_time ELSE time]
             ELSE st

\* One iteration of the frame loop of extract_notes_from_audio.
LoopStep(st, i, fr, min_duration, min_voiced_prob) ==
    LET time == FrameTime(i)
        voiced_ok == fr.p >= min_voiced_prob
        res == frequency_to_note(IF voiced_ok THEN fr.f ELSE NoFreq)
        note_name == res[1]
        midi == res[2]
    IN  IF note_name = None
        THEN IF st.current_note # None
             THEN [st EXCEPT !.notes = CloseNote(st, time, min_duration),
                             !.current_note = None]
             ELSE st
        ELSE IF st.current_note # note_name
             THEN [st EXCEPT !.notes = IF st.current_note # None
                                       THEN CloseNote(st, time, min_duration)
                                       ELSE st.notes,
                             !.current_note = note_name,
                             !.current_midi = midi,
                             !.current_freq = fr.f,
                             !.note_start_time = time]
             ELSE st

\* The frame loop over frames lo..hi, from the locals st.  The range is
\* split in two and the first half is evaluated (its note list measured)
\* before the second half starts, so that a long stream is evaluated at a
\* small depth.
RECURSIVE FrameLoop(_, _, _, _, _, _)
FrameLoop(st, lo, hi, f, min_duration, min_voiced_prob) ==
    IF lo > hi THEN st
    ELSE IF lo = hi THEN LoopStep(st, lo, f[lo], min_duration, min_voiced_prob)
    ELSE LET mid == (lo + hi) \div 2
             half == FrameLoop(st, lo, mid, f, min_duration, min_voiced_prob)
         IN  IF Len(half.notes) >= 0
             THEN FrameLoop(half, mid + 1, hi, f, min_duration, min_voiced_prob)
             ELSE half

\* ExtractRaw without the end-of-stream flush.
ExtractRaw_NoFlush(f, min_duration, min_voiced_prob) ==
    FrameLoop(LoopInit, 1, Len(f), f, min_duration, min_voiced_prob).notes

\* The list `notes` of extract_notes_from_audio when the loop and the
\* end-of-stream flush are over, before the merge.
ExtractRaw(f, min_duration, min_voiced_prob) ==
    LET st == FrameLoop(LoopInit, 1, Len(f), f, min_duration, min_voiced_prob)
    IN  IF st.current_note # None /\ Len(f) > 0
        THEN CloseNote(st, FrameTime(Len(f)), min_duration)
        ELSE st.notes

\* MergeStep that compares with, and extends, the first merged note
\* (merged[0] for merged[-1]).
MergeStep_First(merged, note, merge_gap) ==
    LET last == merged[1]
        gap == note.start_time - last.end_time
    IN  IF note.note = last.note /\ gap <= merge_gap
        THEN [merged EXCEPT ![1] =
                 [last EXCEPT !.end_time = note.end_time,
                              !.duration = note.end_time - last.start_time]]
        ELSE Append(merged, note)

\* MergeStep fusing notes of one label whatever the gap between them.
MergeStep_AnyGap(merged, note, merge_gap) ==
    LET last == merged[Len(merged)]
    IN  IF note.note = last.note
        THEN [merged EXCEPT ![Len(merged)] =
                 [last EXCEPT !.end_time = note.end_time,
                              !.duration = note.end_time - last.start_time]]
        ELSE Append(merged, note)

\* One iteration of the loop of _merge_adjacent_notes.
MergeStep(merged, note, merge_gap) ==
    LET last == merged[Len(merged)]
        gap == note.start_time - last.end_time
    IN  IF note.note = last.note /\ gap <= merge_gap
        THEN [merged EXCEPT ![Len(merged)] =
                 [last EXCEPT !.end_time = note.end_time,
                              !.duration = note.end_time - last.start_time]]
        ELSE Append(merged, note)

RECURSIVE MergeLoop(_, _, _, _)
MergeLoop(merged, ns, k, merge_gap) ==
    IF k > Len(ns) THEN merged
    ELSE MergeLoop(MergeStep(merged, ns[k], merge_gap), ns, k + 1, merge_gap)

_merge_adjacent_notes(ns, merge_gap) ==
    IF ns = <<>> THEN ns
    ELSE MergeLoop(<<ns[1]>>, ns, 2, merge_gap)

extract_notes_from_audio(f, min_duration, min_voiced_prob, merge_gap) ==
    _merge_adjacent_notes(ExtractRaw(f, min_duration, min_voiced_prob), merge_gap)

(***************************************************************************)
(* tab_generator.py                                                        *)
(***************************************************************************)
OPEN_STRING_MIDI == [s \in 1..6 |-> <<64, 59, 55, 50, 45, 40>>[s]]

\* The order in which the dictionary OPEN_STRING_MIDI is iterated.
StringOrder == <<6, 5, 4, 3, 2, 1>>

EmptyTabs == [s \in 1..6 |-> <<>>]

\* librosa.note_to_midi raises for a name it cannot parse.
Parses(name) ==
    /\ Len(name) = 2
    /\ \E k \in 1..12 : PitchClassNames[k] = name[1]

RECURSIVE Positions(_, _, _)
Positions(k, note_midi, mf) ==
    IF k > Len(StringOrder) THEN <<>>
    ELSE LET string == StringOrder[k]
             fret == note_midi - OPEN_STRING_MIDI[string]
         IN  (IF 0 <= fret /\ fret <= mf THEN <<<<string, fret>>>> ELSE <<>>)
             \o Positions(k + 1, note_midi, mf)

RECURSIVE Positions_OffByOne(_, _, _)
Positions_OffByOne(k, note_midi, mf) ==
    IF k > Len(StringOrder) THEN <<>>
    ELSE LET string == StringOrder[k]
             fret == note_midi - OPEN_STRING_MIDI[string]
         IN  (IF 0 <= fret /\ fret <= mf + 1 THEN <<<<string, fret>>>> ELSE <<>>)
             \o Positions_OffByOne(k + 1, note_midi, mf)

\* note_to_tab_positions with the range test fret <= max_fret + 1.
note_to_tab_positions_OffByOne(note_name, mf) ==
    IF ~Parses(note_name) THEN <<>>
    ELSE Positions_OffByOne(1, note_to_midi(note_name), mf)

\* note_to_tab_positions, reading self.max_fret = mf.
note_to_tab_positions(note_name, mf) ==
    IF ~Parses(note_name) THEN <<>>
    ELSE Positions(1, note_to_midi(note_name), mf)

Abs(x) == IF x < 0 THEN -x ELSE x

SetMax(S) == CHOOSE x \in S : \A y \in S : x >= y

SetMin(S) == CHOOSE x \in S : \A y \in S : x <= y

\* Python's order on tuples of integers of one length.
RECURSIVE TupleLess(_, _, _)
TupleLess(a, b, k) ==
    IF k > Len(a) THEN FALSE
    ELSE IF a[k] # b[k] THEN a[k] < b[k]
    ELSE TupleLess(a, b, k + 1)

\* sorted(positions, key=...)[0]: the first position, in list order, whose key
\* no other key is below (sorted is stable).
FirstKey(x) == <<x[2], x[1]>>

\* The key with the string distance before the fret distance.
MoveKey_StringFirst(x, last) == <<Abs(x[1] - last[1]), Abs(x[2] - last[2]), x[2]>>

MoveKey(x, last) == <<Abs(x[2] - last[2]), Abs(x[1] - last[1]), x[2]>>

KeyOf(x, last) == IF last = None THEN FirstKey(x) ELSE MoveKey(x, last)

SortedFirst(positions, last) ==
    LET i == CHOOSE i \in 1..Len(positions) :
                 /\ \A j \in 1..Len(positions) :
                        ~TupleLess(KeyOf(positions[j], last), KeyOf(positions[i], last), 1)
                 /\ \A j \in 1..(i - 1) :
                        KeyOf(positions[j], last) # KeyOf(positions[i], last)
    IN  positions[i]

SortedLast(positions, last) ==
    LET i == CHOOSE i \in 1..Len(positions) :
                 /\ \A j \in 1..Len(positions) :
                        ~TupleLess(KeyOf(positions[i], last), KeyOf(positions[j], last), 1)
                 /\ \A j \in (i + 1)..Len(positions) :
                        KeyOf(positions[j], last) # KeyOf(positions[i], last)
    IN  positions[i]

\* _choose_position taking the last element of the sorted list ([-1] for [0]).
_choose_position_Last(positions, last) ==
    IF positions = <<>> THEN <<1, 0>>
    ELSE SortedLast(positions, last)

\* _choose_position falling back to the lowest string.
_choose_position_LowestString(positions, last) ==
    IF positions = <<>> THEN <<6, 0>>
    ELSE SortedFirst(positions, last)

\* _choose_position, reading self._last_position = last.
_choose_position(positions, last) ==
    IF positions = <<>> THEN <<1, 0>>
    ELSE SortedFirst(positions, last)

TabEntry(fret, note_info) ==
    [fret |-> fret, time |-> note_info.start_time, note |-> note_info.note,
     duration |-> note_info.duration]

\* One iteration of the loop of generate_tabs on the generator state
\* g = [tabs, last, placed], with self.max_fret = mf.
PlaceNote(g, note_info, mf) ==
    IF note_info.note = None THEN g
    ELSE LET positions == note_to_tab_positions(note_info.note, mf)
             pos == _choose_position(positions, g.last)
         IN  [tabs |-> [g.tabs EXCEPT ![pos[1]] = Append(@, TabEntry(pos[2], note_info))],
              last |-> pos,
              placed |-> Append(g.placed,
                                [string |-> pos[1], fret |-> pos[2], note |-> note_info.note,
                                 fallback |-> positions = <<>>])]

RECURSIVE PlaceLoop(_, _, _, _)
PlaceLoop(g, ns, k, mf) ==
    IF k > Len(ns) THEN g
    ELSE PlaceLoop(PlaceNote(g, ns[k], mf), ns, k + 1, mf)

\* generate_tabs run alone: the generator state when it returns.
generate_tabs(ns, mf) ==
    PlaceLoop([tabs |-> EmptyTabs, last |-> None, placed |-> <<>>], ns, 1, mf)

(***************************************************************************)
(* Inputs of the tab generator.                                            *)
(***************************************************************************)
MaxFrets == {0, 15, 24}

\* Note names given to the generator: none, an unparsable name, D2 (below
\* the lowest string), A2, E4, F4 and E5.
TabNameSamples ==
    {None, <<"H", 4>>} \cup {midi_to_note(m) : m \in {38, 45, 64, 65, 76}}

\* Distances between the start times of successive notes, in samples
\* (5 ms and one hop).
StartGaps == {220, HopLength}

TabNote(name, start) == [note |-> name, start_time |-> start, duration |-> HopLength]

LastStart(ns) == IF ns = <<>> THEN 0 ELSE ns[Len(ns)].start_time

Run(m0, k, n) == [i \in 1..n |-> TabNote(midi_to_note(m0 + (i - 1) * k), i * HopLength)]

TabIdle ==
    /\ tnotes = <<>>
    /\ max_fret = 15
    /\ tabs = EmptyTabs
    /\ last_position = None
    /\ placed = <<>>
    /\ tpc = "input"

\* GuitarTabGenerator(max_fret=...), tabs and last position empty.
InitTab ==
    /\ tnotes = <<>>
    /\ max_fret \in MaxFrets
    /\ tabs = EmptyTabs
    /\ last_position = None
    /\ placed = <<>>
    /\ tpc = "input"

\* The caller's note list grows by one note.
TabAppendNote ==
    /\ tpc = "input"
    /\ Len(tnotes) < MaxTabNotes
    /\ \E name \in TabNameSamples, gap \in StartGaps :
         tnotes' = Append(tnotes, TabNote(name, LastStart(tnotes) + gap))
    /\ UNCHANGED <<max_fret, tabs, last_position, placed, tpc, nottab>>

\* The caller's note list is a run of notes a fixed interval apart.
TabLoadRun ==
    /\ tpc = "input"
    /\ tnotes = <<>>
    /\ \E m0 \in 64..88, k \in (-MaxInterval)..MaxInterval, n \in 2..MaxRun :
         /\ m0 + (n - 1) * k \in 64..88
         /\ tnotes' = Run(m0, k, n)
    /\ tpc' = "loaded"
    /\ UNCHANGED <<max_fret, tabs, last_position, placed, nottab>>

\* set_max_fret.
TabSetMaxFret ==
    /\ tpc = "input"
    /\ tnotes = <<>>
    /\ \E mf \in MaxFrets : max_fret' = mf
    /\ UNCHANGED <<tnotes, tabs, last_position, placed, tpc, nottab>>

\* generate_tabs(notes), run to its end by one caller.
TabGenerate ==
    /\ tpc \in {"input", "loaded"}
    /\ LET g == generate_tabs(tnotes, max_fret)
       IN  /\ tabs' = g.tabs
           /\ last_position' = g.last
           /\ placed' = g.placed
    /\ tpc' = "done"
    /\ UNCHANGED <<tnotes, max_fret, nottab>>

(***************************************************************************)
(* gui_app.py: on_analyze and on_best_quality start one worker thread per  *)
(* click, and every worker calls the one GuitarTabGenerator of the         *)
(* application, self.tab_gen.  A step of a worker is one statement of      *)
(* task() or of generate_tabs.                                             *)
(***************************************************************************)
Threads == {1, 2}

NoJob == [max_fret |-> 0, notes |-> <<>>]

\* What a click may ask for: the form's max_fret and the notes the
\* extraction of the worker will give.
Jobs ==
    {[max_fret |-> 15, notes |-> Run(64, 1, 2)],
     [max_fret |-> 15, notes |-> Run(69, -5, 2)],
     [max_fret |-> 0, notes |-> Run(45, 0, 1)]}

GuiIdle ==
    /\ gpc = [t \in Threads |-> "idle"]
    /\ gjob = [t \in Threads |-> NoJob]
    /\ gi = [t \in Threads |-> 0]
    /\ gpositions = [t \in Threads |-> <<>>]
    /\ gpos = [t \in Threads |-> <<1, 0>>]
    /\ gplaced = [t \in Threads |-> <<>>]
    /\ gread = [t \in Threads |-> EmptyTabs]

\* on_analyze / on_best_quality: threading.Thread(target=task).start().
GuiStart ==
    \E t \in Threads, job \in Jobs :
        /\ gpc[t] = "idle"
        /\ gjob' = [gjob EXCEPT ![t] = job]
        /\ gpc' = [gpc EXCEPT ![t] = "set_max_fret"]
        /\ UNCHANGED <<gi, gpositions, gpos, gplaced, gread>>
        /\ UNCHANGED <<tabs, last_position, max_fret, notgui>>

\* self.tab_gen.set_max_fret(max_fret), then the extraction of the notes.
GuiSetMaxFret ==
    \E t \in Threads :
        /\ gpc[t] = "set_max_fret"
        /\ max_fret' = gjob[t].max_fret
        /\ gpc' = [gpc EXCEPT ![t] = "reset_tabs"]
        /\ UNCHANGED <<gjob, gi, gpositions, gpos, gplaced, gread>>
        /\ UNCHANGED <<tabs, last_position, notgui>>

\* generate_tabs: self.tabs = {1: [], ...}.
GuiResetTabs ==
    \E t \in Threads :
        /\ gpc[t] = "reset_tabs"
        /\ tabs' = EmptyTabs
        /\ gpc' = [gpc EXCEPT ![t] = "reset_last"]
        /\ UNCHANGED <<gjob, gi, gpositions, gpos, gplaced, gread>>
        /\ UNCHANGED <<last_position, max_fret, notgui>>

\* generate_tabs: self._last_position = None.
GuiResetLast ==
    \E t \in Threads :
        /\ gpc[t] = "reset_last"
        /\ last_position' = None
        /\ gi' = [gi EXCEPT ![t] = 1]
        /\ gpc' = [gpc EXCEPT ![t] = "loop"]
        /\ UNCHANGED <<gjob, gpositions, gpos, gplaced, gread>>
        /\ UNCHANGED <<tabs, max_fret, notgui>>

\* generate_tabs: the loop head, the test of the name, and
\* positions = self.note_to_tab_positions(note_name).
GuiPositions ==
    \E t \in Threads :
        /\ gpc[t] = "loop"
        /\ IF gi[t] > Len(gjob[t].notes)
           THEN /\ gpc' = [gpc EXCEPT ![t] = "format"]
                /\ UNCHANGED <<gi, gpositions>>
           ELSE IF gjob[t].notes[gi[t]].note = None
           THEN /\ gi' = [gi EXCEPT ![t] = @ + 1]
                /\ UNCHANGED <<gpc, gpositions>>
           ELSE /\ gpositions' = [gpositions EXCEPT ![t] =
                       note_to_tab_positions(gjob[t].notes[gi[t]].note, max_fret)]
                /\ gpc' = [gpc EXCEPT ![t] = "choose"]
                /\ UNCHANGED gi
        /\ UNCHANGED <<gjob, gpos, gplaced, gread>>
        /\ UNCHANGED <<tabs, last_position, max_fret, notgui>>

\* generate_tabs: string, fret = self._choose_position(positions).
GuiChoose ==
    \E t \in Threads :
        /\ gpc[t] = "choose"
        /\ gpos' = [gpos EXCEPT ![t] = _choose_position(gpositions[t], last_position)]
        /\ gplaced' = [gplaced EXCEPT ![t] =
               Append(@, [string |-> gpos'[t][1], fret |-> gpos'[t][2],
                          note |-> gjob[t].notes[gi[t]].note,
                          fallback |-> gpositions[t] = <<>>])]
        /\ gpc' = [gpc EXCEPT ![t] = "set_last"]
        /\ UNCHANGED <<gjob, gi, gpositions, gread>>
        /\ UNCHANGED <<tabs, last_position, max_fret, notgui>>

\* generate_tabs: self._last_position = (string, fret).
GuiSetLast ==
    \E t \in Threads :
        /\ gpc[t] = "set_last"
        /\ last_position' = gpos[t]
        /\ gpc' = [gpc EXCEPT ![t] = "append"]
        /\ UNCHANGED <<gjob, gi, gpositions, gpos, gplaced, gread>>
        /\ UNCHANGED <<tabs, max_fret, notgui>>

\* generate_tabs: self.tabs[string].append({...}).
GuiAppend ==
    \E t \in Threads :
        /\ gpc[t] = "append"
        /\ tabs' = [tabs EXCEPT ![gpos[t][1]] =
                       Append(@, TabEntry(gpos[t][2], gjob[t].notes[gi[t]]))]
        /\ gi' = [gi EXCEPT ![t] = @ + 1]
        /\ gpc' = [gpc EXCEPT ![t] = "loop"]
        /\ UNCHANGED <<gjob, gpositions, gpos, gplaced, gread>>
        /\ UNCHANGED <<last_position, max_fret, notgui>>

\* tabs_text = self.tab_gen.format_tabs_as_text(), which reads self.tabs.
GuiFormat ==
    \E t \in Threads :
        /\ gpc[t] = "format"
        /\ gread' = [gread EXCEPT ![t] = tabs]
        /\ gpc' = [gpc EXCEPT ![t] = "done"]
        /\ UNCHANGED <<gjob, gi, gpositions, gpos, gplaced>>
        /\ UNCHANGED <<tabs, last_position, max_fret, notgui>>

(***************************************************************************)
(* tab_refiner.py (_format_tabs_from_grid) and tab_synth.py                *)
(* (parse_tabs_text, synthesize_from_tabs_text).  A text and a token are   *)
(* sequences of one-character strings.                                     *)
(***************************************************************************)
Digits == <<"0", "1", "2", "3", "4", "5", "6", "7", "8", "9">>

IsDigit(ch) == \E d \in 1..10 : Digits[d] = ch

DigitValue(ch) == (CHOOSE d \in 1..10 : Digits[d] = ch) - 1

\* str(n) for n >= 0.
RECURSIVE Str(_)
Str(n) == IF n < 10 THEN <<Digits[n + 1]>> ELSE Str(n \div 10) \o <<Digits[(n % 10) + 1]>>

\* int(token) for a token of digits.
RECURSIVE int(_)
int(tok) ==
    IF Len(tok) = 1 THEN DigitValue(tok[1])
    ELSE 10 * int(SubSeq(tok, 1, Len(tok) - 1)) + DigitValue(tok[Len(tok)])

Rest == <<"-", "-">>

Rule == [i \in 1..60 |-> "="]

Title == <<"G", "U", "I", "T", "A", "R", " ", "T", "A", "B", "S">>

string_names == <<"e", "B", "G", "D", "A", "E">>

\* f"{token:>2}": the token right-aligned in a field of width 2.
PadLeft2(tok) ==
    IF Len(tok) >= 2 THEN tok
    ELSE IF Len(tok) = 1 THEN <<" ">> \o tok
    ELSE <<" ", " ">>

\* sep.join(parts)
RECURSIVE Join(_, _)
Join(parts, sep) ==
    IF parts = <<>> THEN <<>>
    ELSE IF Len(parts) = 1 THEN parts[1]
    ELSE parts[1] \o sep \o Join(Tail(parts), sep)

Part(token) == PadLeft2(IF token = Rest THEN <<"-">> ELSE token)

FormatRow(row, name, cols) ==
    <<name, "|">> \o Join([c \in 1..cols |-> Part(row[c])], <<"-">>) \o <<"|">>

_format_tabs_from_grid(grid, cols) ==
    Join(<<Rule, Title, Rule>>
         \o [r \in 1..6 |-> FormatRow(grid[r], string_names[r], cols)]
         \o <<Rule>>,
         <<"\n">>)

\* The place of the first ch of t at or after p, Len(t) + 1 when none.
Find(t, ch, p) ==
    LET S == {i \in p..Len(t) : t[i] = ch}
    IN  IF S = {} THEN Len(t) + 1 ELSE CHOOSE i \in S : \A j \in S : i <= j

\* The place of the last ch of t, 0 when none.
FindLast(t, ch) ==
    LET S == {i \in 1..Len(t) : t[i] = ch}
    IN  IF S = {} THEN 0 ELSE CHOOSE i \in S : \A j \in S : i >= j

\* tab_text.splitlines(), for texts whose line ends are "\n".
RECURSIVE SplitLines(_, _)
SplitLines(t, p) ==
    IF p > Len(t) THEN <<>>
    ELSE LET e == Find(t, "\n", p)
         IN  <<SubSeq(t, p, e - 1)>> \o SplitLines(t, e + 1)

\* ln.strip(), for lines whose white space is the space.
Strip(ln) ==
    LET S == {i \in 1..Len(ln) : ln[i] # " "}
    IN  IF S = {} THEN <<>>
        ELSE SubSeq(ln, CHOOSE i \in S : \A j \in S : i <= j,
                        CHOOSE i \in S : \A j \in S : i >= j)

\* Any one character before a bar makes a row line.
IsStringLine_AnyLabel(ln) == Len(ln) >= 2 /\ ln[2] = "|"

\* re.match(r'^[eBGDAE]\|', ln)
IsStringLine(ln) ==
    /\ Len(ln) >= 2
    /\ \E r \in 1..6 : string_names[r] = ln[1]
    /\ ln[2] = "|"

\* ln.split('|', 1)[1].rsplit('|', 1)[0] if '|' in ln else ln
Body(ln) ==
    IF Find(ln, "|", 1) > Len(ln) THEN ln
    ELSE LET after == SubSeq(ln, Find(ln, "|", 1) + 1, Len(ln))
         IN  IF FindLast(after, "|") = 0 THEN after
             ELSE SubSeq(after, 1, FindLast(after, "|") - 1)

\* The end of the run of digits of t that starts at p.
RECURSIVE DigitsEnd(_, _)
DigitsEnd(t, p) == IF p < Len(t) /\ IsDigit(t[p + 1]) THEN DigitsEnd(t, p + 1) ELSE p

\* re.findall(r'--|\d+', body), scanning from p.
RECURSIVE FindTokens(_, _)
FindTokens(t, p) ==
    IF p > Len(t) THEN <<>>
    ELSE IF p < Len(t) /\ t[p] = "-" /\ t[p + 1] = "-"
    THEN <<Rest>> \o FindTokens(t, p + 2)
    ELSE IF IsDigit(t[p])
    THEN <<SubSeq(t, p, DigitsEnd(t, p))>> \o FindTokens(t, DigitsEnd(t, p) + 1)
    ELSE FindTokens(t, p + 1)

NonBlank(ln) == Strip(ln) # <<>>

Max(a, b) == IF a >= b THEN a ELSE b

MaxLen(rows) == LET S == {Len(rows[r]) : r \in 1..Len(rows)}
                IN  CHOOSE n \in S : \A k \in S : n >= k

\* The rows are returned as tokenized, without padding.
PadRow_None(row, n) == row

PadRow(row, n) == row \o [k \in 1..(n - Len(row)) |-> Rest]

\* parse_tabs_text: (grid, cols), or the ValueError it raises.
parse_tabs_text(tab_text) ==
    LET kept == SelectSeq(SplitLines(tab_text, 1), NonBlank)
        lines == [k \in 1..Len(kept) |-> Strip(kept[k])]
        string_lines == SelectSeq(lines, IsStringLine)
    IN  IF Len(string_lines) < 6
        THEN [ok |-> FALSE, grid |-> <<>>, cols |-> 0]
        ELSE LET parsed == [r \in 1..6 |-> FindTokens(Body(string_lines[r]), 1)]
                 max_cols == MaxLen(parsed)
             IN  [ok |-> TRUE,
                  grid |-> [r \in 1..6 |-> PadRow(parsed[r], max_cols)],
                  cols |-> max_cols]

\* int(x) of a quantity given as a product of integers over 1000 (seconds in
\* milliseconds times a sample rate), the product taken exactly.
Samples(ms, sample_rate) == (ms * sample_rate) \div 1000

\* start_idx of a column whose index is c + 1: the first column takes
\* the place of the second.
StartIdx_NextColumn(c, step_ms, sample_rate) == Samples((c + 1) * step_ms, sample_rate)

\* start_idx = int(c * step_seconds * sample_rate)
StartIdx(c, step_ms, sample_rate) == Samples(c * step_ms, sample_rate)

\* The non-rest cells of column c (0-based) of a grid, rows in order, as the
\* plucks the inner loop of synthesize_from_tabs_text mixes.
RECURSIVE ColumnPlucks(_, _, _, _)
ColumnPlucks(grid, c, row_idx, p) ==
    IF row_idx > 5 THEN <<>>
    ELSE LET token == grid[row_idx + 1][c + 1]
             start_idx == StartIdx(c, p.step_ms, p.sample_rate)
             n_samples == Max(1, Samples(p.note_ms, p.sample_rate))
             audio_len == Samples(Max(p.note_ms + (p.cols * p.step_ms), 100), p.sample_rate)
             end_idx == IF audio_len < start_idx + n_samples THEN audio_len
                        ELSE start_idx + n_samples
         IN  (IF token = Rest THEN <<>>
              ELSE <<[col |-> c, row |-> row_idx, start_idx |-> start_idx,
                      end_idx |-> end_idx,
                      midi |-> OPEN_STRING_MIDI[row_idx + 1] + int(token)]>>)
             \o ColumnPlucks(grid, c, row_idx + 1, p)

RECURSIVE GridPlucks(_, _, _)
GridPlucks(grid, c, p) ==
    IF c >= p.cols THEN <<>>
    ELSE ColumnPlucks(grid, c, 0, p) \o GridPlucks(grid, c + 1, p)

\* synthesize_from_tabs_text on a parsed text: the plucks mixed into the
\* buffer, in order, and the SynthResult.
Synthesize(parsed, step_ms, note_ms, sample_rate) ==
    LET p == [cols |-> parsed.cols, step_ms |-> step_ms, note_ms |-> note_ms,
              sample_rate |-> sample_rate]
        plucks == GridPlucks(parsed.grid, 0, p)
    IN  [step_ms |-> step_ms, note_ms |-> note_ms, sample_rate |-> sample_rate,
         plucks |-> plucks,
         notes_count |-> Len(plucks),
         audio_len |-> Samples(Max(note_ms + (parsed.cols * step_ms), 100), sample_rate)]

(***************************************************************************)
(* Inputs of the codec and of the synthesizer.                             *)
(***************************************************************************)
FretSamples == {0, 9, 10, 24}

EmptyGrid == [r \in 1..6 |-> <<>>]

\* A column of a well-formed grid: all rests, one fret on one string, or
\* an open string below a fretted one.
ColumnSamples ==
    {[r \in 1..6 |-> Rest]}
    \cup {[r \in 1..6 |-> IF r = q THEN Str(f) ELSE Rest] : q \in 1..6, f \in FretSamples}
    \cup {[r \in 1..6 |-> IF r = 5 THEN Str(12) ELSE IF r = 6 THEN Str(0) ELSE Rest]}

\* Texts written by hand: `0-2-3` on the lowest string and `--` elsewhere,
\* and the same text without its first row.
RestLine(name) == <<name, "|", "-", "-", "|">>

ExampleText ==
    Join([r \in 1..5 |-> RestLine(string_names[r])]
         \o <<<<"E", "|", "0", "-", "2", "-", "3", "|">>>>, <<"\n">>)

FiveRowText ==
    Join([r \in 1..4 |-> RestLine(string_names[r + 1])]
         \o <<<<"E", "|", "0", "-", "2", "-", "3", "|">>>>, <<"\n">>)

\* The six rows indented, with a blank line and a line of spaces among them.
IndentedText ==
    Join(<<<<>>, <<" ", " ">>>>
         \o [r \in 1..6 |-> <<" ", " ">> \o RestLine(string_names[r]) \o <<" ">>],
         <<"\n">>)

\* Five rows and a line with a label that is no string's.
ForeignRowText ==
    Join([r \in 1..5 |-> RestLine(string_names[r])] \o <<<<"X", "|", "0", "|">>>>, <<"\n">>)

\* Six rows, a line without a bar between them, and a seventh row.
SevenRowText ==
    Join([r \in 1..3 |-> RestLine(string_names[r])]
         \o <<<<"e", "B", "G">>>>
         \o [r \in 1..3 |-> RestLine(string_names[r + 3])]
         \o <<<<"e", "|", "5", "|">>>>, <<"\n">>)

TextSamples == {ExampleText, FiveRowText, IndentedText, ForeignRowText, SevenRowText}

StepMs == {110, 140}

NoteMs == {180}

SampleRates == {22050, 44100}

NoSynth ==
    [step_ms |-> 0, note_ms |-> 0, sample_rate |-> 0, plucks |-> <<>>,
     notes_count |-> 0, audio_len |-> 0]

NoParse == [ok |-> FALSE, grid |-> <<>>, cols |-> 0]

CodecIdle ==
    /\ cgrid = EmptyGrid
    /\ ccols = 0
    /\ ctext = <<>>
    /\ cparsed = NoParse
    /\ synth = NoSynth
    /\ cpc = "grid"

\* The grid grows by one column.
CodecAddColumn ==
    /\ cpc = "grid"
    /\ ccols < MaxCols
    /\ \E col \in ColumnSamples : cgrid' = [r \in 1..6 |-> Append(cgrid[r], col[r])]
    /\ ccols' = ccols + 1
    /\ UNCHANGED <<ctext, cparsed, synth, cpc, notcodec>>

\* _format_tabs_from_grid(grid, cols)
CodecFormat ==
    /\ cpc = "grid"
    /\ ctext' = _format_tabs_from_grid(cgrid, ccols)
    /\ cpc' = "text"
    /\ UNCHANGED <<cgrid, ccols, cparsed, synth, notcodec>>

\* A text that was not formatted from a grid is given.
CodecLoadText ==
    /\ cpc = "grid"
    /\ ccols = 0
    /\ \E t \in TextSamples : ctext' = t
    /\ cpc' = "given"
    /\ UNCHANGED <<cgrid, ccols, cparsed, synth, notcodec>>

\* parse_tabs_text(tab_text)
CodecParse ==
    /\ cpc \in {"text", "given"}
    /\ cparsed' = parse_tabs_text(ctext)
    /\ cpc' = IF cparsed'.ok THEN "parsed" ELSE "error"
    /\ UNCHANGED <<cgrid, ccols, ctext, synth, notcodec>>

\* synthesize_from_tabs_text(tab_text, ...), which parses the text itself.
CodecSynthesize ==
    /\ cpc \in {"text", "given"}
    /\ cparsed' = parse_tabs_text(ctext)
    /\ IF cparsed'.ok
       THEN /\ \E step_ms \in StepMs, note_ms \in NoteMs, sample_rate \in SampleRates :
                 synth' = Synthesize(cparsed', step_ms, note_ms, sample_rate)
            /\ cpc' = "synth"
       ELSE /\ synth' = synth
            /\ cpc' = "error"
    /\ UNCHANGED <<cgrid, ccols, ctext, notcodec>>

(***************************************************************************)
(* synth_matcher.py (optimize_synth_against_original).  Seconds are in     *)
(* milliseconds, decay and gain in thousandths, scores in whole points.    *)
(***************************************************************************)
coarse_grid ==
    [step_seconds |-> <<110, 140, 170>>,
     note_seconds |-> <<140, 190, 240>>,
     decay |-> <<993, 996, 998>>,
     gain |-> <<280, 380, 480>>,
     transpose_semitones |-> <<-2, -1, 0, 1, 2>>]

Params(step, note, decay, gain, trans) ==
    [step_seconds |-> step, note_seconds |-> note, decay |-> decay, gain |-> gain,
     transpose_semitones |-> trans]

NoParams == <<>>

\* best_score = -1e9, in points
InitialBestScore == -1000000000

Min(a, b) == IF a <= b THEN a ELSE b

\* The i-th element (from 0) of itertools.product of five lists, the last
\* list running fastest.
Product(xs1, xs2, xs3, xs4, xs5, i) ==
    LET n5 == Len(xs5)
        n4 == Len(xs4)
        n3 == Len(xs3)
        n2 == Len(xs2)
    IN  Params(xs1[(i \div (n5 * n4 * n3 * n2)) + 1],
               xs2[((i \div (n5 * n4 * n3)) % n2) + 1],
               xs3[((i \div (n5 * n4)) % n3) + 1],
               xs4[((i \div n5) % n4) + 1],
               xs5[(i % n5) + 1])

ProductSize(g) ==
    Len(g.step_seconds) * Len(g.note_seconds) * Len(g.decay) * Len(g.gain)
        * Len(g.transpose_semitones)

Candidate(g, i) ==
    Product(g.step_seconds, g.note_seconds, g.decay, g.gain, g.transpose_semitones, i)

\* sorted(set(xs)) of a list of integers
RECURSIVE SortedSet(_)
SortedSet(S) ==
    IF S = {} THEN <<>>
    ELSE LET lo == CHOOSE x \in S : \A y \in S : x <= y
         IN  <<lo>> \o SortedSet(S \ {lo})

\* The lists of the refinement pass with offsets of a whole spacing of the
\* coarse lists.
RefineGrid_CoarseSpacing(best) ==
    LET step0 == best.step_seconds
        note0 == best.note_seconds
        decay0 == best.decay
        gain0 == best.gain
        trans0 == best.transpose_semitones
    IN  [step_seconds |-> <<Max(80, step0 - 30), step0, Min(220, step0 + 30)>>,
         note_seconds |-> <<Max(100, note0 - 50), note0, Min(300, note0 + 50)>>,
         decay |-> <<Max(990, decay0 - 2), decay0, Min(999, decay0 + 2)>>,
         gain |-> <<Max(150, gain0 - 100), gain0, Min(650, gain0 + 100)>>,
         transpose_semitones |-> SortedSet({trans0 - 2, trans0, trans0 + 2})]

\* The lists of the refinement pass around the best candidate of the
\* coarse pass.
RefineGrid(best) ==
    LET step0 == best.step_seconds
        note0 == best.note_seconds
        decay0 == best.decay
        gain0 == best.gain
        trans0 == best.transpose_semitones
    IN  [step_seconds |-> <<Max(80, step0 - 15), step0, Min(220, step0 + 15)>>,
         note_seconds |-> <<Max(100, note0 - 20), note0, Min(300, note0 + 20)>>,
         decay |-> <<Max(990, decay0 - 1), decay0, Min(999, decay0 + 1)>>,
         gain |-> <<Max(150, gain0 - 60), gain0, Min(650, gain0 + 60)>>,
         transpose_semitones |-> SortedSet({trans0 - 1, trans0, trans0 + 1})]

\* score_params: the similarity of the rendering with a candidate's
\* parameters to the original recording.  The rendering and the similarity
\* are computed outside this repository's arithmetic (librosa chroma and
\* onset strength); what the optimizer relies on is that the score is a
\* finite number fixed by the candidate and the recording.  Here a recording
\* is the parameters it was played with, and the score falls with the
\* distance from them; a recording of at most 2048 samples scores 0.0 with
\* every candidate (compare_audio_similarity).
TooShort == <<>>

score_params(target, p) ==
    IF target = TooShort THEN 0
    ELSE 0 - (Abs(p.step_seconds - target.step_seconds)
              + Abs(p.note_seconds - target.note_seconds)
              + 10 * Abs(p.decay - target.decay)
              + (Abs(p.gain - target.gain) \div 10)
              + 20 * Abs(p.transpose_semitones - target.transpose_semitones))

\* No comparison: every candidate replaces the best.
Improves_Always(score, best) == TRUE

\* if score > best_score
Improves(score, best) == score > best

Recordings ==
    {TooShort}
    \cup {Params(st, nt, dc, gn, tr) :
            st \in {110, 125, 155, 220}, nt \in {140, 260}, dc \in {993, 997},
            gn \in {280, 440}, tr \in {-3, 0, 1}}

EmptyGridLists ==
    [step_seconds |-> <<>>, note_seconds |-> <<>>, decay |-> <<>>, gain |-> <<>>,
     transpose_semitones |-> <<>>]

NoResult == [score |-> 0, params |-> NoParams, returned |-> FALSE]

OptIdle ==
    /\ otarget = TooShort
    /\ opc = "idle"
    /\ oi = 0
    /\ best_score = InitialBestScore
    /\ best_params = NoParams
    /\ refine = EmptyGridLists
    /\ oresult = NoResult

\* optimize_synth_against_original is called: the recording is loaded,
\* best_score = -1e9, best_params = {}.
OptCall ==
    /\ opc = "idle"
    /\ tunepc = "idle"
    /\ \E t \in Recordings : otarget' = t
    /\ opc' = "coarse"
    /\ oi' = 0
    /\ best_score' = InitialBestScore
    /\ best_params' = NoParams
    /\ UNCHANGED <<refine, oresult, notopt>>

\* One turn of a pass's loop over the grid g: score the candidate, keep it
\* when it improves on the best.
Evaluate(g) ==
    LET p == Candidate(g, oi)
        score == score_params(otarget, p)
    IN  /\ oi' = oi + 1
        /\ IF Improves(score, best_score)
           THEN best_score' = score /\ best_params' = p
           ELSE UNCHANGED <<best_score, best_params>>

OptCoarseStep ==
    /\ opc = "coarse"
    /\ oi < ProductSize(coarse_grid)
    /\ Evaluate(coarse_grid)
    /\ UNCHANGED <<otarget, opc, refine, oresult, notopt>>

\* The coarse loop is over: the refinement lists are built around
\* best_params (a KeyError were best_params still empty, which no finite
\* score allows: the first candidate scores more than -1e9).
OptRefineSetup ==
    /\ opc = "coarse"
    /\ oi = ProductSize(coarse_grid)
    /\ best_params # NoParams
    /\ refine' = RefineGrid(best_params)
    /\ opc' = "refine"
    /\ oi' = 0
    /\ UNCHANGED <<otarget, best_score, best_params, oresult, notopt>>

OptRefineStep ==
    /\ opc = "refine"
    /\ oi < ProductSize(refine)
    /\ Evaluate(refine)
    /\ UNCHANGED <<otarget, opc, refine, oresult, notopt>>

\* return MatchResult(score=float(best_score), params=best_params, ...)
OptReturn ==
    /\ opc = "refine"
    /\ oi = ProductSize(refine)
    /\ oresult' = [score |-> best_score, params |-> best_params, returned |-> TRUE]
    /\ opc' = "done"
    /\ UNCHANGED <<otarget, oi, best_score, best_params, refine, notopt>>

(***************************************************************************)
(* tab_refiner.py (_closest_refined_fret, refine_tabs_with_original).      *)
(* Pitches and pitch errors are in thousandths of a semitone.              *)
(***************************************************************************)
\* A frame of the pitch track that is not a finite number (the pitches of
\* the track are positive).
NaN == -1

\* 0.04 per semitone of move, the improvement of 0.8 that is required.
MovePenalty == 40
MinImprovement == 800

\* The loop over delta in range(lo, 13) of _closest_refined_fret, from the
\* best so far.
RECURSIVE DeltaLoop(_, _, _, _, _, _)
DeltaLoop(best, delta, current_fret, open_midi, target_midi, mf) ==
    IF delta > 12 THEN best
    ELSE LET cand_fret == current_fret + delta
             cand_midi == open_midi + cand_fret
             score == Abs((1000 * cand_midi) - target_midi) + (MovePenalty * Abs(delta))
             nxt == IF 0 <= cand_fret /\ cand_fret <= mf /\ score < best.score
                    THEN [fret |-> cand_fret, score |-> score]
                    ELSE best
         IN  DeltaLoop(nxt, delta + 1, current_fret, open_midi, target_midi, mf)

\* _closest_refined_fret searching downwards by three frets only.
_closest_refined_fret_ThreeDown(current_fret, string_num, target_midi, mf) ==
    LET open_midi == OPEN_STRING_MIDI[string_num]
        current_midi == open_midi + current_fret
    IN  DeltaLoop([fret |-> current_fret,
                   score |-> Abs((1000 * current_midi) - target_midi)],
                  -3, current_fret, open_midi, target_midi, mf).fret

_closest_refined_fret(current_fret, string_num, target_midi, mf) ==
    LET open_midi == OPEN_STRING_MIDI[string_num]
        current_midi == open_midi + current_fret
    IN  DeltaLoop([fret |-> current_fret,
                   score |-> Abs((1000 * current_midi) - target_midi)],
                  -12, current_fret, open_midi, target_midi, mf).fret

\* abs((open_midi + fret) - target_midi)
PitchError(string_num, fret, target_midi) ==
    Abs((1000 * (OPEN_STRING_MIDI[string_num] + fret)) - target_midi)

\* The replacement is applied whatever it improves.
Meaningful_Always(old_err, new_err) == TRUE

\* if (old_err - new_err) >= 0.8
Meaningful(old_err, new_err) == (old_err - new_err) >= MinImprovement

\* The cell grid[row][c] after the body of the loops of
\* refine_tabs_with_original, row from 0.
RefineCell(token, row, target_midi, mf) ==
    IF target_midi = NaN \/ token = Rest THEN token
    ELSE LET fret == int(token)
             string_num == row + 1
             new_fret == _closest_refined_fret(fret, string_num, target_midi, mf)
         IN  IF new_fret # fret
                /\ Meaningful(PitchError(string_num, fret, target_midi),
                              PitchError(string_num, new_fret, target_midi))
             THEN Str(new_fret)
             ELSE token

\* refine_tabs_with_original on a parsed text, targets[c + 1] being
\* midi_track[frame_idx] of column c.
Refine(parsed, targets, mf) ==
    LET grid == [r \in 1..6 |->
                    [c \in 1..parsed.cols |->
                        RefineCell(parsed.grid[r][c], r - 1, targets[c], mf)]]
    IN  [done |-> TRUE,
         grid |-> grid,
         cols |-> parsed.cols,
         targets |-> targets,
         max_fret |-> mf,
         changes_count |-> Cardinality({<<r, c>> \in (1..6) \X (1..parsed.cols) :
                                           grid[r][c] # parsed.grid[r][c]}),
         refined_tabs_text |-> _format_tabs_from_grid(grid, parsed.cols)]

(***************************************************************************)
(* Inputs of the refiner.                                                  *)
(***************************************************************************)
\* Columns of the tablature handed to the refiner: rests, G2 on the lowest
\* string, E5 and E6 on the highest, A2 over G2.
RefineColumnSamples ==
    {[r \in 1..6 |-> Rest],
     [r \in 1..6 |-> IF r = 6 THEN Str(3) ELSE Rest],
     [r \in 1..6 |-> IF r = 1 THEN Str(12) ELSE Rest],
     [r \in 1..6 |-> IF r = 1 THEN Str(24) ELSE Rest],
     [r \in 1..6 |-> IF r = 5 THEN Str(0) ELSE IF r = 6 THEN Str(3) ELSE Rest]}

\* Values of the pitch track (librosa.hz_to_midi of librosa.yin), in
\* eighths of a semitone so that they are the same number in binary
\* floating point: no frame, G2, G2 + 0.75, G#2, F2, G3, E5 - 0.875.
TargetSamples == {NaN, 43000, 43750, 44000, 41000, 55000, 75125}

RefineMaxFrets == {12, 24}

NotRefined ==
    [done |-> FALSE, grid |-> <<>>, cols |-> 0, targets |-> <<>>, max_fret |-> 0,
     changes_count |-> 0, refined_tabs_text |-> <<>>]

RefineIdle ==
    /\ refined = NotRefined
    /\ reparsed = NoParse
    /\ rerun = NotRefined

\* The tablature to refine grows by one column.
RefineAddColumn ==
    /\ cpc = "grid"
    /\ ccols < MaxRefineCols
    /\ \E col \in RefineColumnSamples : cgrid' = [r \in 1..6 |-> Append(cgrid[r], col[r])]
    /\ ccols' = ccols + 1
    /\ UNCHANGED <<ctext, cparsed, synth, cpc, notcodec>>

\* refine_tabs_with_original(tabs_text, original_audio_path, max_fret=...),
\* which parses the text itself; the recording gives each column its frame
\* of the pitch track.
CodecRefine ==
    /\ cpc \in {"text", "given"}
    /\ cparsed' = parse_tabs_text(ctext)
    /\ IF cparsed'.ok
       THEN /\ \E targets \in [1..cparsed'.cols -> TargetSamples], mf \in RefineMaxFrets :
                 refined' = Refine(cparsed', targets, mf)
            /\ cpc' = "refined"
       ELSE /\ refined' = refined
            /\ cpc' = "error"
    /\ UNCHANGED <<cgrid, ccols, ctext, synth, reparsed, rerun, notrefine>>

\* The tablature to refine twice grows by one column.
RerunAddColumn ==
    /\ cpc = "grid"
    /\ ccols < MaxRerunCols
    /\ \E col \in RefineColumnSamples : cgrid' = [r \in 1..6 |-> Append(cgrid[r], col[r])]
    /\ ccols' = ccols + 1
    /\ UNCHANGED <<ctext, cparsed, synth, cpc, notcodec>>

\* refine_tabs_with_original on the text the first call returned, with the
\* same recording, step_seconds and max_fret: column c has the frame of the
\* pitch track it had in the first call.
CodecRefineAgain ==
    /\ cpc = "refined"
    /\ reparsed' = parse_tabs_text(refined.refined_tabs_text)
    /\ IF reparsed'.ok
       THEN /\ rerun' = Refine(reparsed', [c \in 1..reparsed'.cols |-> refined.targets[c]],
                               refined.max_fret)
            /\ cpc' = "rerun"
       ELSE /\ rerun' = rerun
            /\ cpc' = "error"
    /\ UNCHANGED <<cgrid, ccols, ctext, cparsed, synth, refined, notrefine>>

(***************************************************************************)
(* tab_synth.py (_karplus_strong and the buffer of                         *)
(* synthesize_from_tabs_text).  Amplitudes are in ten-thousandths; a       *)
(* product with a fraction is cut to a whole ten-thousandth.               *)
(***************************************************************************)
One == 10000

\* decay = 0.996 in thousandths, the gain 0.35 of a pluck in hundredths
Decay == 996
PluckGain == 35

\* x * num / den for a signed amplitude x, cut towards zero.
Scaled(x, num, den) == IF x >= 0 THEN (x * num) \div den ELSE 0 - (((0 - x) * num) \div den)

\* The loop `for i in range(n_samples)` of _karplus_strong from sample i:
\* buf is the ring of `period` values, idx the place in it (from 0).
RECURSIVE KarplusLoop(_, _, _, _)
KarplusLoop(buf, idx, i, n_samples) ==
    IF i >= n_samples THEN <<>>
    ELSE LET nxt == (idx + 1) % Len(buf)
             fed == Scaled(buf[idx + 1] + buf[nxt + 1], Decay, 2000)
         IN  <<buf[idx + 1]>>
             \o KarplusLoop([buf EXCEPT ![idx + 1] = fed], nxt, i + 1, n_samples)

\* out[:attack] *= np.linspace(0.0, 1.0, attack)
Attack(out, attack) ==
    IF attack > 1 /\ attack < Len(out)
    THEN [i \in 1..Len(out) |->
            IF i <= attack THEN Scaled(out[i], i - 1, attack - 1) ELSE out[i]]
    ELSE out

\* out[-release:] *= np.linspace(1.0, 0.0, release)
Release(out, release) ==
    IF release > 1 /\ release < Len(out)
    THEN [i \in 1..Len(out) |->
            IF i > Len(out) - release
            THEN Scaled(out[i], Len(out) - i, release - 1)
            ELSE out[i]]
    ELSE out

\* _karplus_strong(freq, duration, sample_rate) from the ring buf that
\* np.random.uniform filled.  The ring has period = max(2, int(sample_rate
\* / freq)) values: two, for the sample rates of at most 100 that buffers
\* are rendered at here (the lowest string sounds at 82 Hz).
_karplus_strong(buf, note_ms, sample_rate) ==
    LET n_samples == Max(1, Samples(note_ms, sample_rate))
        out == KarplusLoop(buf, 0, 0, n_samples)
    IN  Release(Attack(out, Samples(3, sample_rate)), Samples(30, sample_rate))

\* The buffer divided by its peak whatever the peak is.
Normalize_ByPeak(audio, peak) ==
    IF peak > 0 THEN [i \in 1..Len(audio) |-> Scaled(audio[i], One, peak)] ELSE audio

\* if peak > 0: audio = audio / max(peak, 1.0)
Normalize(audio, peak) ==
    IF peak > 0 THEN [i \in 1..Len(audio) |-> Scaled(audio[i], One, Max(peak, One))]
    ELSE audio

RECURSIVE SumSeq(_)
SumSeq(xs) == IF xs = <<>> THEN 0 ELSE Head(xs) + SumSeq(Tail(xs))

\* float(np.max(np.abs(audio))) if len(audio) else 1.0
Peak(audio) ==
    IF Len(audio) = 0 THEN One
    ELSE LET S == {Abs(audio[i]) : i \in 1..Len(audio)}
         IN  CHOOSE x \in S : \A y \in S : x >= y

\* The buffer of synthesize_from_tabs_text: every pluck's note, times 0.35,
\* is added at its place; rings[k] is the ring of the k-th pluck.
SynthesizeBuffer(parsed, step_ms, note_ms, sample_rate, rings) ==
    LET result == Synthesize(parsed, step_ms, note_ms, sample_rate)
        plucks == result.plucks
        note == [k \in 1..Len(plucks) |-> _karplus_strong(rings[k], note_ms, sample_rate)]
        Part_(k, i) ==
            IF plucks[k].start_idx < i /\ i <= plucks[k].end_idx
            THEN Scaled(note[k][i - plucks[k].start_idx], PluckGain, 100)
            ELSE 0
        mixed == [i \in 1..result.audio_len |->
                     SumSeq([k \in 1..Len(plucks) |-> Part_(k, i)])]
        peak == Peak(mixed)
    IN  [rendered |-> TRUE,
         sample_rate |-> sample_rate,
         notes_count |-> result.notes_count,
         mixed |-> mixed,
         peak |-> peak,
         audio |-> Normalize(mixed, peak)]

\* Rings np.random.uniform(-1.0, 1.0, 2) can fill.
RingSamples == <<<<One, One>>, <<0 - One, 6000>>, <<2500, 0 - One>>>>

\* The rings of n plucks: the samples in turn from any of them, or one
\* sample for every pluck.
RingAssignments(n) ==
    {[k \in 1..n |-> RingSamples[((k + first) % 3) + 1]] : first \in 0..2}
    \cup {[k \in 1..n |-> RingSamples[r]] : r \in 1..3}

RenderRates == {50, 100}

NotRendered ==
    [rendered |-> FALSE, sample_rate |-> 0, notes_count |-> 0, mixed |-> <<>>,
     peak |-> 0, audio |-> <<>>]

RenderIdle == render = NotRendered

\* synthesize_from_tabs_text(tab_text, ..., sample_rate), with the buffer.
CodecSynthesizeBuffer ==
    /\ cpc \in {"text", "given"}
    /\ cparsed' = parse_tabs_text(ctext)
    /\ IF cparsed'.ok
       THEN /\ \E sample_rate \in RenderRates,
                   rings \in RingAssignments(6 * cparsed'.cols) :
                 render' = SynthesizeBuffer(cparsed', 140, 180, sample_rate, rings)
            /\ cpc' = "rendered"
       ELSE /\ render' = render
            /\ cpc' = "error"
    /\ UNCHANGED <<cgrid, ccols, ctext, synth, notrender>>

(***************************************************************************)
(* auto_tune.py (find_best_extraction).  Durations are in milliseconds,    *)
(* probabilities in percent; a score is the code's score times the length  *)
(* of the preview in seconds, which keeps the order of the scores.         *)
(***************************************************************************)
durations == <<20, 30, 40>>
probs == <<15, 20, 25>>
segments == <<6, 8, 10>>

\* The i-th element (from 0) of product(durations, probs, segments).
TuneCandidate(i) ==
    [min_duration |-> durations[(i \div (Len(segments) * Len(probs))) + 1],
     min_voiced_prob |-> probs[((i \div Len(segments)) % Len(probs)) + 1],
     segment_seconds |-> segments[(i % Len(segments)) + 1]]

TuneSize == Len(durations) * Len(probs) * Len(segments)

\* count = len(notes) of the extraction with a candidate's parameters.  The
\* extraction is the detector's; here a recording is a profile of how its
\* note count falls with min_duration and min_voiced_prob and rises with
\* segment_seconds.
NoteCount(profile, cand) ==
    Max(0, profile.base
           - (profile.per_duration * ((cand.min_duration - 20) \div 10))
           - (profile.per_prob * ((cand.min_voiced_prob - 15) \div 5))
           + (profile.per_segment * ((cand.segment_seconds - 6) \div 2)))

\* density = count / preview_duration_sec; penalty = max(0.0, density - 2.0)
\* * 120.0; score = count - penalty: times preview_duration_sec.
TuneScore(count, preview_sec) ==
    (count * preview_sec) - (120 * Max(0, count - (2 * preview_sec)))

NoBest == <<>>

\* A candidate replaces the best when it scores as much.
Better_OrEqual(best, score) == best = NoBest \/ score >= best.score

\* if best is None or candidate.score > best.score
Better(best, score) == best = NoBest \/ score > best.score

Profiles ==
    [base : {0, 5, 40, 200}, per_duration : {0, 10}, per_prob : {0, 3}, per_segment : {0, 1}]

\* preview_seconds: float = 45.0
preview_seconds == 45

\* Lengths of the recording in seconds; the preview is its first
\* min(duration_sec, preview_seconds) seconds.
AudioSeconds == {10, 45, 90}

PreviewSeconds == {Min(a, preview_seconds) : a \in AudioSeconds}

\* Notes extracted from the part of a recording that lies after the preview.
RestCounts == {0, 3}

\* len(final_notes): the extraction of the whole recording with the best
\* parameters, which is that of the preview when the recording is no longer
\* than the preview.
FinalCount(profile, cand, rest) == NoteCount(profile, cand) + rest

NoProfile == [base |-> 0, per_duration |-> 0, per_prob |-> 0, per_segment |-> 0]

NoTuneResult == [returned |-> FALSE, params |-> NoBest, score |-> 0, notes_count |-> 0]

TuneIdle ==
    /\ tprofile = NoProfile
    /\ tpreview = 0
    /\ taudio = 0
    /\ trest = 0
    /\ tunepc = "idle"
    /\ ti = 0
    /\ tbest = NoBest
    /\ tresult = NoTuneResult

\* find_best_extraction(audio, detector) is called: best = None.
TuneCall ==
    /\ tunepc = "idle"
    /\ opc = "idle"
    /\ \E p \in Profiles, a \in AudioSeconds, r \in RestCounts :
         /\ tprofile' = p
         /\ taudio' = a
         /\ tpreview' = Min(a, preview_seconds)
         /\ trest' = IF a > preview_seconds THEN r ELSE 0
    /\ tunepc' = "search"
    /\ ti' = 0
    /\ tbest' = NoBest
    /\ UNCHANGED <<tresult, nottune>>

\* One turn of the loop over product(durations, probs, segments).
TuneStep ==
    /\ tunepc = "search"
    /\ ti < TuneSize
    /\ LET cand == TuneCandidate(ti)
           score == TuneScore(NoteCount(tprofile, cand), tpreview)
       IN  IF Better(tbest, score)
           THEN tbest' = [params |-> cand, score |-> score]
           ELSE tbest' = tbest
    /\ ti' = ti + 1
    /\ UNCHANGED <<tprofile, tpreview, taudio, trest, tunepc, tresult, nottune>>

\* assert best is not None; the TuneResult with best's parameters and score.
TuneReturn ==
    /\ tunepc = "search"
    /\ ti = TuneSize
    /\ tbest # NoBest
    /\ tresult' = [returned |-> TRUE, params |-> tbest.params, score |-> tbest.score,
                    notes_count |-> FinalCount(tprofile, tbest.params, trest)]
    /\ tunepc' = "done"
    /\ UNCHANGED <<tprofile, tpreview, taudio, trest, ti, tbest, nottune>>

(***************************************************************************)
(* pitch_detector.py (_smooth_f0).  Frequencies are in half hertz, so that *)
(* the mean of two of them is a whole number; NaN is a frame without       *)
(* pitch.                                                                  *)
(***************************************************************************)
\* The k-th smallest (from 1) of a non-empty sequence of numbers.
KthSmallest(xs, k) ==
    CHOOSE v \in {xs[i] : i \in 1..Len(xs)} :
        /\ Cardinality({i \in 1..Len(xs) : xs[i] < v}) < k
        /\ Cardinality({i \in 1..Len(xs) : xs[i] <= v}) >= k

\* np.nanmedian: the median of the values that are not NaN, the mean of
\* the two middle ones when their number is even.
nanmedian(xs) ==
    LET vals == SelectSeq(xs, LAMBDA v : v # NaN)
        n == Len(vals)
    IN  IF n % 2 = 1 THEN KthSmallest(vals, (n + 1) \div 2)
        ELSE (KthSmallest(vals, n \div 2) + KthSmallest(vals, (n \div 2) + 1)) \div 2

\* scipy.signal.medfilt: the median of the kernel_size values around each
\* place, zeros standing beyond the ends.
medfilt(xs, kernel_size) ==
    LET half == kernel_size \div 2
        At(i) == IF i >= 1 /\ i <= Len(xs) THEN xs[i] ELSE 0
    IN  [i \in 1..Len(xs) |->
            KthSmallest([j \in 1..kernel_size |-> At(i - half + j - 1)], half + 1)]

\* _smooth_f0 without its last line: the filtered track is returned as it
\* is.
_smooth_f0_Unmasked(track, kernel_size) ==
    IF Len(track) = 0 \/ \A i \in 1..Len(track) : track[i] = NaN THEN track
    ELSE LET median_val == nanmedian(track)
         IN  medfilt([i \in 1..Len(track) |->
                         IF track[i] = NaN THEN median_val ELSE track[i]],
                     IF kernel_size % 2 = 0 THEN kernel_size + 1 ELSE kernel_size)

_smooth_f0(track, kernel_size) ==
    IF Len(track) = 0 THEN track
    ELSE IF \A i \in 1..Len(track) : track[i] = NaN THEN track
    ELSE LET median_val == nanmedian(track)
             filled == [i \in 1..Len(track) |->
                           IF track[i] = NaN THEN median_val ELSE track[i]]
             size == IF kernel_size % 2 = 0 THEN kernel_size + 1 ELSE kernel_size
             filtered == medfilt(filled, size)
         IN  [i \in 1..Len(track) |-> IF track[i] # NaN THEN filtered[i] ELSE NaN]

\* Frames of librosa.pyin: no pitch, or 110, 220 and 445 Hz.
F0Samples == {NaN, 220, 440, 890}

SmoothIdle ==
    /\ f0 = <<>>
    /\ smoothed = <<>>
    /\ smpc = "input"

\* The pitch track grows by one frame.
SmoothAppendFrame ==
    /\ smpc = "input"
    /\ Len(f0) < MaxTrack
    /\ \E v \in F0Samples : f0' = Append(f0, v)
    /\ UNCHANGED <<smoothed, smpc, notsmooth>>

\* f0 = self._smooth_f0(f0), kernel_size = 5
SmoothCall ==
    /\ smpc = "input"
    /\ smoothed' = _smooth_f0(f0, 5)
    /\ smpc' = "done"
    /\ UNCHANGED <<f0, notsmooth>>

(***************************************************************************)
(* Inputs of the segmenter.                                                *)
(***************************************************************************)
Silent == [f |-> NoFreq, p |-> 0]

\* Frames of a stream: unvoiced, A4, A4 with a low voiced probability,
\* B4, and a pitch half way between A4 and A#4.
FrameSamples ==
    {Silent, [f |-> 138, p |-> 90], [f |-> 138, p |-> 50],
     [f |-> 142, p |-> 90], [f |-> 139, p |-> 90]}

\* Frames of a one-pitch stream with dropouts.
ToneSamples == {Silent, [f |-> 138, p |-> 90], [f |-> 142, p |-> 90]}

MinDurations == {0, HopLength, 2 * HopLength}

MinVoicedProbs == {50, 75}

MergeGaps == {0, HopLength, 2 * HopLength}

SegIdle ==
    /\ frames = <<>>
    /\ segpc = "input"
    /\ segparams = [min_duration |-> 0, min_voiced_prob |-> 0, merge_gap |-> 0]
    /\ rawnotes = <<>>
    /\ notes = <<>>

\* The pitch oracle delivers one more frame of the stream.
SegAppendFrame ==
    /\ segpc = "input"
    /\ Len(frames) < MaxFrames
    /\ \E fr \in FrameSamples : frames' = Append(frames, fr)
    /\ UNCHANGED <<segpc, segparams, rawnotes, notes, notseg>>

SegAppendTone ==
    /\ segpc = "input"
    /\ Len(frames) < MaxToneFrames
    /\ \E fr \in ToneSamples : frames' = Append(frames, fr)
    /\ UNCHANGED <<segpc, segparams, rawnotes, notes, notseg>>

\* A call of extract_notes_from_audio on the stream with the given parameters.
Extract(md, vp, mg) ==
    /\ segpc = "input"
    /\ segparams' = [min_duration |-> md, min_voiced_prob |-> vp, merge_gap |-> mg]
    /\ rawnotes' = ExtractRaw(frames, md, vp)
    /\ notes' = extract_notes_from_audio(frames, md, vp, mg)
    /\ segpc' = "done"
    /\ UNCHANGED <<frames, notseg>>

SegExtract ==
    \E md \in MinDurations, vp \in MinVoicedProbs, mg \in MergeGaps : Extract(md, vp, mg)

\* The defaults of extract_notes_from_audio, in samples and percent.
DefaultMinDuration == (DefaultMinDurationMs * SampleRate) \div 1000

DefaultMergeGap == (DefaultMergeGapMs * SampleRate) \div 1000

SegExtractTone ==
    \E md \in MinDurations, mg \in MergeGaps \ {0} : Extract(md, DefaultMinVoicedProb, mg)

\* run_sine_test: one second of a 440 Hz sine, for which the pitch oracle gives
\* 1 + samples \div hop_length frames, here all voiced at MIDI 69.0, and the
\* extraction with the default parameters.
SineStream ==
    [i \in 1..(1 + ((SineSampleRate * SineDurationSec) \div HopLength)) |->
        [f |-> 138, p |-> 100]]

run_sine_test ==
    /\ segpc = "input"
    /\ frames = <<>>
    /\ frames' = SineStream
    /\ segparams' = [min_duration |-> DefaultMinDuration,
                     min_voiced_prob |-> DefaultMinVoicedProb,
                     merge_gap |-> DefaultMergeGap]
    /\ rawnotes' = ExtractRaw(SineStream, DefaultMinDuration, DefaultMinVoicedProb)
    /\ notes' = extract_notes_from_audio(SineStream, DefaultMinDuration,
                                         DefaultMinVoicedProb, DefaultMergeGap)
    /\ segpc' = "done"
    /\ UNCHANGED notseg

(***************************************************************************)
(* _merge_adjacent_notes on any note list: the notes need not come from    *)
(* the segmenter, and need not be ordered.                                 *)
(***************************************************************************)
SampleTimes == {0, HopLength, 2 * HopLength}

NoteSamples ==
    {NoteDict(midi_to_note(m), m, 2 * m, s, e) : m \in {69, 71}, s \in SampleTimes, e \in SampleTimes}

MergeIdle ==
    /\ mlist = <<>>
    /\ mgap = 0
    /\ mout = <<>>
    /\ mpc = "input"

MergeAppendNote ==
    /\ mpc = "input"
    /\ Len(mlist) < MaxMergeNotes
    /\ \E n \in NoteSamples : mlist' = Append(mlist, n)
    /\ UNCHANGED <<mgap, mout, mpc, notmerge>>

MergeCall ==
    /\ mpc = "input"
    /\ \E mg \in {0, HopLength} :
         /\ mgap' = mg
         /\ mout' = _merge_adjacent_notes(mlist, mg)
    /\ mpc' = "done"
    /\ UNCHANGED <<mlist, notmerge>>

(***************************************************************************)
(* tab_generator.py (format_tabs_as_text).  Times are in samples at the    *)
(* detector's sample rate.                                                 *)
(***************************************************************************)
\* abs(tab["time"] - time) < 0.01, in samples
TimeTolerance == SampleRate \div 100

\* sorted({tab["time"] for string in self.tabs.values() for tab in string})
all_times(t) == SortedSet(UNION {{t[s][i].time : i \in DOMAIN t[s]} : s \in 1..6})

\* next((tab for tab in self.tabs[string] if abs(tab["time"] - time) < 0.01),
\* None): the place of the first such entry of the string's list, 0 for None.
Match(string_tabs, time) ==
    LET hits == {i \in DOMAIN string_tabs : Abs(string_tabs[i].time - time) < TimeTolerance}
    IN  IF hits = {} THEN 0 ELSE SetMin(hits)

\* strings_display: for each string, the cell of each time.
strings_display(t, times) ==
    [s \in 1..6 |->
        [c \in 1..Len(times) |->
            LET i == Match(t[s], times[c])
            IN  IF i = 0 THEN <<"-">> ELSE Str(t[s][i].fret)]]

NoTabsText ==
    <<"N", "o", " ", "t", "a", "b", "s", " ", "g", "e", "n", "e", "r", "a", "t", "e", "d">>

format_tabs_as_text(t) ==
    LET times == all_times(t)
        rows == strings_display(t, times)
    IN  [formatted |-> TRUE,
         times |-> times,
         rows |-> rows,
         text |-> IF times = <<>> THEN NoTabsText
                  ELSE Join(<<Rule, Title, Rule>>
                            \o [s \in 1..6 |->
                                   <<string_names[s], "|">>
                                   \o Join([c \in 1..Len(times) |-> PadLeft2(rows[s][c])],
                                           <<"-">>)
                                   \o <<"|">>]
                            \o <<Rule>>,
                            <<"\n">>)]

NotFormatted == [formatted |-> FALSE, times |-> <<>>, rows |-> <<>>, text |-> <<>>]

FormatIdle == display = NotFormatted

\* format_tabs_as_text() after generate_tabs, by the one caller.
TabFormat ==
    /\ tpc = "done"
    /\ display' = format_tabs_as_text(tabs)
    /\ tpc' = "formatted"
    /\ UNCHANGED <<tnotes, max_fret, tabs, last_position, placed, notfmt>>

(***************************************************************************)
(* Specifications: one per component, the other components idle.           *)
(***************************************************************************)
InitSeg == SegIdle /\ MergeIdle /\ TabIdle /\ GuiIdle /\ CodecIdle /\ OptIdle /\ RefineIdle /\ RenderIdle /\ TuneIdle /\ SmoothIdle /\ FormatIdle

NextSeg == SegAppendFrame \/ SegExtract \/ run_sine_test

SpecSeg == InitSeg /\ [][NextSeg]_vars

NextSegTone == SegAppendTone \/ SegExtractTone

SpecSegTone == InitSeg /\ [][NextSegTone]_vars

NextMerge == MergeAppendNote \/ MergeCall

SpecMerge == InitSeg /\ [][NextMerge]_vars

InitTabSpec == SegIdle /\ MergeIdle /\ InitTab /\ GuiIdle /\ CodecIdle /\ OptIdle /\ RefineIdle /\ RenderIdle /\ TuneIdle /\ SmoothIdle /\ FormatIdle

NextTab == TabAppendNote \/ TabLoadRun \/ TabSetMaxFret \/ TabGenerate

SpecTab == InitTabSpec /\ [][NextTab]_vars

NextTabText == TabAppendNote \/ TabSetMaxFret \/ TabGenerate \/ TabFormat

SpecTabText == InitTabSpec /\ [][NextTabText]_vars

NextGui ==
    \/ GuiStart \/ GuiSetMaxFret \/ GuiResetTabs \/ GuiResetLast \/ GuiPositions
    \/ GuiChoose \/ GuiSetLast \/ GuiAppend \/ GuiFormat

SpecGui == InitSeg /\ [][NextGui]_vars

NextCodec ==
    CodecAddColumn \/ CodecFormat \/ CodecLoadText \/ CodecParse \/ CodecSynthesize

SpecCodec == InitSeg /\ [][NextCodec]_vars

NextOpt == OptCall \/ OptCoarseStep \/ OptRefineSetup \/ OptRefineStep \/ OptReturn

SpecOpt == InitSeg /\ [][NextOpt]_vars

NextRefine == RefineAddColumn \/ CodecFormat \/ CodecLoadText \/ CodecRefine

SpecRefine == InitSeg /\ [][NextRefine]_vars

NextRefineTwice ==
    RerunAddColumn \/ CodecFormat \/ CodecLoadText \/ CodecRefine \/ CodecRefineAgain

SpecRefineTwice == InitSeg /\ [][NextRefineTwice]_vars

NextSearch ==
    \/ OptCall \/ OptCoarseStep \/ OptRefineSetup \/ OptRefineStep \/ OptReturn
    \/ TuneCall \/ TuneStep \/ TuneReturn

SpecSearch == InitSeg /\ [][NextSearch]_vars

NextSmooth == SmoothAppendFrame \/ SmoothCall

SpecSmooth == InitSeg /\ [][NextSmooth]_vars

NextRender == RefineAddColumn \/ CodecFormat \/ CodecLoadText \/ CodecSynthesizeBuffer

SpecRender == InitSeg /\ [][NextRender]_vars

(***************************************************************************)
(* Claims about the segmenter.                                             *)
(***************************************************************************)

\* C2 (as stated): for a fixed stream, min_voiced_prob and merge_gap, a larger
\* min_duration never makes extract_notes_from_audio return more notes than
\* it returned with the smaller one.
C2_ReturnedCountMonotone ==
    segpc = "done" =>
        \A md \in MinDurations :
            md >= segparams.min_duration =>
                Len(extract_notes_from_audio(frames, md, segparams.min_voiced_prob,
                                             segparams.merge_gap)) <= Len(notes)

\* C2 (amended): for a fixed stream and min_voiced_prob, the notes the state
\* machine emits with a larger min_duration, before the merge, are never more
\* than those it emits with the smaller one.
C2_EmittedCountMonotone ==
    segpc = "done" =>
        \A md \in MinDurations :
            md >= segparams.min_duration =>
                Len(ExtractRaw(frames, md, segparams.min_voiced_prob)) <= Len(rawnotes)

\* C2 witness: an extraction that emitted three notes and merged them into
\* one, where a larger min_duration emits fewer notes.
C2_Witness ==
    /\ segpc = "done"
    /\ Len(rawnotes) = 3
    /\ Len(notes) = 1
    /\ \E md \in MinDurations :
         /\ md > segparams.min_duration
         /\ Len(ExtractRaw(frames, md, segparams.min_voiced_prob)) = 2

\* C5: _merge_adjacent_notes applied to its own output, with the same
\* merge_gap, returns that output.
C5_MergeIdempotent ==
    mpc = "done" => _merge_adjacent_notes(mout, mgap) = mout

\* C5 witness: a merge that fused notes of a list of three and left two.
C5_Witness ==
    /\ mpc = "done"
    /\ Len(mlist) = 3
    /\ Len(mout) = 2

WellFormedNotes(ns) ==
    /\ \A k \in 1..Len(ns) :
         /\ ns[k].duration = ns[k].end_time - ns[k].start_time
         /\ ns[k].duration >= 0
    /\ \A k \in 1..(Len(ns) - 1) : ns[k].end_time <= ns[k + 1].start_time

\* C6: in the list the state machine emits and in the list returned after
\* the merge, every note has duration = end_time - start_time >= 0 and every
\* note ends no later than the next one starts.
C6_NotesOrdered ==
    segpc = "done" => WellFormedNotes(rawnotes) /\ WellFormedNotes(notes)

\* C6 witness: three notes were emitted, two of them were merged, and two
\* notes are returned.
C6_Witness ==
    /\ segpc = "done"
    /\ Len(rawnotes) = 3
    /\ Len(notes) = 2

\* The label of a frame under the voicing threshold vp (None when unvoiced).
FrameLabel(fr, vp) == frequency_to_note(IF fr.p >= vp THEN fr.f ELSE NoFreq)[1]

Steady(f, vp) ==
    /\ f # <<>>
    /\ FrameLabel(f[1], vp) # None
    /\ \A i \in 1..Len(f) : FrameLabel(f[i], vp) = FrameLabel(f[1], vp)

\* C9: when every frame is voiced with the same pitch label and the span
\* from the first to the last frame is at least min_duration, exactly one
\* note is returned, with that label, from the first frame's time to the
\* last frame's time; the sine test (all frames voiced at A4) returns exactly
\* one A4 note of at least 0.9 s.
C9_SteadyToneOneNote ==
    /\ (/\ segpc = "done"
        /\ Steady(frames, segparams.min_voiced_prob)
        /\ FrameTime(Len(frames)) - FrameTime(1) >= segparams.min_duration)
       => /\ Len(notes) = 1
          /\ notes[1].note = FrameLabel(frames[1], segparams.min_voiced_prob)
          /\ notes[1].start_time = FrameTime(1)
          /\ notes[1].end_time = FrameTime(Len(frames))
    /\ (segpc = "done" /\ frames = SineStream)
       => /\ Len(notes) = 1
          /\ notes[1].note = <<"A", 4>>
          /\ 10 * notes[1].duration >= 9 * SineSampleRate

\* C9 witness: the sine test has run and returned a note.
C9_Witness ==
    /\ segpc = "done"
    /\ frames = SineStream
    /\ Len(notes) = 1

\* C9 witness: a short steady stream mixing two voiced probabilities.
C9_WitnessShort ==
    /\ segpc = "done"
    /\ Len(frames) = MaxFrames
    /\ Steady(frames, segparams.min_voiced_prob)
    /\ \E i \in 1..Len(frames) : frames[i].p # frames[1].p
    /\ Len(notes) = 1

(***************************************************************************)
(* Claims about the tab generator.                                         *)
(***************************************************************************)

\* C4: every note that generate_tabs places from a non-empty candidate set
\* sits at a string and fret with OPEN_STRING_MIDI[string] + fret equal to
\* the MIDI number of the note's name and 0 <= fret <= max_fret.
C4_FretboardValid ==
    tpc = "done" =>
        \A k \in 1..Len(placed) :
            ~placed[k].fallback =>
                /\ OPEN_STRING_MIDI[placed[k].string] + placed[k].fret
                       = note_to_midi(placed[k].note)
                /\ 0 <= placed[k].fret
                /\ placed[k].fret <= max_fret

\* C4 witness: three notes were placed from candidates, one of them at the
\* highest fret allowed and not on string 1.
C4_Witness ==
    /\ tpc = "done"
    /\ Len(placed) = 3
    /\ \A k \in 1..3 : ~placed[k].fallback
    /\ \E k \in 1..3 : placed[k].fret = max_fret /\ placed[k].string # 1 /\ max_fret > 0

\* The notes are a fixed interval apart and all playable on string 1.
IsRunOnString1(ns, mf) ==
    /\ Len(ns) >= 2
    /\ \A i \in 1..Len(ns) :
         /\ ns[i].note # None
         /\ Parses(ns[i].note)
         /\ note_to_midi(ns[i].note) - OPEN_STRING_MIDI[1] \in 0..mf
    /\ \A i \in 2..(Len(ns) - 1) :
         note_to_midi(ns[i + 1].note) - note_to_midi(ns[i].note)
             = note_to_midi(ns[2].note) - note_to_midi(ns[1].note)

RECURSIVE FretTravel(_, _)
FretTravel(ps, k) ==
    IF k >= Len(ps) THEN 0
    ELSE Abs(ps[k + 1].fret - ps[k].fret) + FretTravel(ps, k + 1)

RECURSIVE String1Travel(_, _)
String1Travel(ns, k) ==
    IF k >= Len(ns) THEN 0
    ELSE Abs(note_to_midi(ns[k + 1].note) - note_to_midi(ns[k].note))
         + String1Travel(ns, k + 1)

\* C8: for notes a fixed interval apart that are all playable on string 1
\* within max_fret, the sum of the absolute fret differences between
\* consecutive chosen positions is at most the sum obtained by playing every
\* note on string 1.
C8_GreedyContinuity ==
    (tpc = "done" /\ IsRunOnString1(tnotes, max_fret)) =>
        FretTravel(placed, 1) <= String1Travel(tnotes, 1)

\* C8 witness: a run of six notes on which the greedy choice left string 1
\* and travelled strictly less than string 1 would have.
C8_Witness ==
    /\ tpc = "done"
    /\ IsRunOnString1(tnotes, max_fret)
    /\ Len(placed) = 6
    /\ \E k \in 1..6 : placed[k].string = 4
    /\ FretTravel(placed, 1) < String1Travel(tnotes, 1)

\* The (string, fret) pairs that sound a note within max_fret = mf.
Candidates(name, mf) ==
    IF ~Parses(name) THEN {}
    ELSE {<<s, note_to_midi(name) - OPEN_STRING_MIDI[s]>> :
            s \in {q \in 1..6 : note_to_midi(name) - OPEN_STRING_MIDI[q] \in 0..mf}}

LexLeq(a, b) == a = b \/ TupleLess(a, b, 1)

\* C14: the first note generate_tabs places goes to the candidate that is
\* least under (fret, string); every later note goes to the candidate that
\* is least under (|fret - last_fret|, |string - last_string|, fret), last
\* being the position of the note placed just before, a fallback position
\* included.
C14_SelectionPolicy ==
    tpc = "done" =>
        \A k \in 1..Len(placed) :
            LET C == Candidates(placed[k].note, max_fret)
                s == placed[k].string
                f == placed[k].fret
            IN  /\ placed[k].fallback <=> (C = {})
                /\ C # {} =>
                     /\ <<s, f>> \in C
                     /\ \A x \in C :
                          IF k = 1
                          THEN LexLeq(<<f, s>>, <<x[2], x[1]>>)
                          ELSE LexLeq(<<Abs(f - placed[k - 1].fret),
                                        Abs(s - placed[k - 1].string), f>>,
                                      <<Abs(x[2] - placed[k - 1].fret),
                                        Abs(x[1] - placed[k - 1].string), x[2]>>)

\* C14 witness: the first note had no candidate, the second was chosen
\* among several next to the fallback position, and the third went to a
\* candidate that is not the one of lowest fret.
C14_Witness ==
    /\ tpc = "done"
    /\ Len(placed) = 3
    /\ placed[1].fallback
    /\ Cardinality(Candidates(placed[2].note, max_fret)) >= 2
    /\ \E x \in Candidates(placed[3].note, max_fret) : x[2] < placed[3].fret

HasName(note_info) == note_info.note # None

\* C16: a note whose pitch has no candidate within max_fret on any string
\* is placed at string 1, fret 0, and generate_tabs goes on with the notes
\* after it: every named note is placed, in order, and has its entry in
\* the grid.
C16_FallbackPlaced ==
    tpc = "done" =>
        LET named == SelectSeq(tnotes, HasName)
        IN  /\ Len(placed) = Len(named)
            /\ \A k \in 1..Len(placed) :
                 /\ placed[k].note = named[k].note
                 /\ \E e \in 1..Len(tabs[placed[k].string]) :
                      tabs[placed[k].string][e] = TabEntry(placed[k].fret, named[k])
                 /\ Candidates(placed[k].note, max_fret) = {} =>
                      placed[k].string = 1 /\ placed[k].fret = 0

\* C16 witness: of three notes the second, an unparsable name or a pitch
\* out of range, fell back to string 1, fret 0, and the third was placed
\* from its candidates on another string.
C16_Witness ==
    /\ tpc = "done"
    /\ Len(placed) = 3
    /\ ~placed[1].fallback
    /\ placed[2].fallback
    /\ placed[2].string = 1 /\ placed[2].fret = 0
    /\ ~placed[3].fallback
    /\ placed[3].string # 1

\* C3: a worker that runs while another worker runs chooses for its notes
\* the strings and frets generate_tabs chooses for them alone, and formats
\* the grid generate_tabs builds for them alone.
C3_NoInterference ==
    \A t \in Threads :
        gpc[t] = "done" =>
            /\ gplaced[t] = generate_tabs(gjob[t].notes, gjob[t].max_fret).placed
            /\ gread[t] = generate_tabs(gjob[t].notes, gjob[t].max_fret).tabs

(***************************************************************************)
(* Claims about the codec and the synthesizer.                             *)
(***************************************************************************)

\* C1: parse_tabs_text applied to the text formatted from a well-formed
\* grid returns the column count and every cell of the grid, and formatting
\* the parsed grid gives the same text again.
C1_RoundTrip ==
    (cpc = "parsed" /\ ctext = _format_tabs_from_grid(cgrid, ccols)) =>
        /\ cparsed.cols = ccols
        /\ cparsed.grid = cgrid
        /\ _format_tabs_from_grid(cparsed.grid, cparsed.cols) = ctext

\* The lines of a text that, leading spaces apart, begin with the label of
\* a string and a bar: the places where they begin.
RowLineStarts(t) ==
    {p \in 1..Len(t) :
        /\ p = 1 \/ t[p - 1] = "\n"
        /\ \E q \in p..(Len(t) - 1) :
             /\ \A k \in p..(q - 1) : t[k] = " "
             /\ t[q] \in {"e", "B", "G", "D", "A", "E"}
             /\ t[q + 1] = "|"}

\* C12: parse_tabs_text raises exactly when the text has fewer than six
\* non-blank lines that begin with e, B, G, D, A or E and a bar; then no
\* grid is returned and nothing is rendered or refined.
C12_MalformedRejected ==
    cpc \in {"parsed", "synth", "refined", "rendered", "error"} =>
        /\ (cpc = "error") <=> (Cardinality(RowLineStarts(ctext)) < 6)
        /\ cparsed.ok <=> (cpc # "error")
        /\ cpc = "error" =>
             /\ cparsed.grid = <<>>
             /\ synth = NoSynth
             /\ ~refined.done
             /\ ~render.rendered

\* C12 witness: a text of five rows and a line with a foreign label was
\* rejected.
C12_Witness ==
    /\ cpc = "error"
    /\ ctext = ForeignRowText

\* A text with seven rows and one with indented rows were accepted.
C12_WitnessAccepted ==
    /\ cpc = "parsed"
    /\ ctext \in {SevenRowText, IndentedText}
    /\ cparsed.cols = 1

NonRestCells(grid, cols) ==
    {<<r, c>> \in (0..5) \X (0..(cols - 1)) : grid[r + 1][c + 1] # Rest}

C10_WitnessChord ==
    /\ cpc = "synth"
    /\ ccols = 2
    /\ synth.notes_count = 3

\* The tokens of each of the first six row lines of a text, found line by
\* line from the text itself.
RowTokens(t) ==
    LET starts == RowLineStarts(t)
        nth(k) == CHOOSE v \in starts : Cardinality({u \in starts : u < v}) = k - 1
    IN  [r \in 1..6 |->
            FindTokens(Body(Strip(SubSeq(t, nth(r), Find(t, "\n", nth(r)) - 1))), 1)]

\* C19: parse_tabs_text returns six rows of exactly cols tokens each, cols
\* being the token count of the longest of the first six row lines and the
\* shorter rows being padded on the right with rests; every cell the
\* synthesizer reads, and so every pluck it places, lies inside its row.
C19_GridShape ==
    cparsed.ok =>
        /\ Len(cparsed.grid) = 6
        /\ \A r \in 1..6 : Len(cparsed.grid[r]) = cparsed.cols
        /\ cpc = "parsed" =>
             LET tokens == RowTokens(ctext)
             IN  /\ \A r \in 1..6 :
                      /\ Len(tokens[r]) <= cparsed.cols
                      /\ \A c \in 1..cparsed.cols :
                           cparsed.grid[r][c] =
                               IF c <= Len(tokens[r]) THEN tokens[r][c] ELSE Rest
                 /\ \E r \in 1..6 : Len(tokens[r]) = cparsed.cols
        /\ cpc = "synth" =>
             \A k \in 1..Len(synth.plucks) :
                  synth.plucks[k].col + 1 \in DOMAIN cparsed.grid[synth.plucks[k].row + 1]

\* C19 witness: a text whose rows hold one token and three tokens was
\* parsed to six rows of three, and rendered.
C19_Witness ==
    /\ cpc = "synth"
    /\ ctext = ExampleText
    /\ cparsed.cols = 3
    /\ \A r \in 1..5 : cparsed.grid[r] = <<Rest, Rest, Rest>>
    /\ synth.notes_count = 3

(***************************************************************************)
(* Claims about the optimizer.                                             *)
(***************************************************************************)
Evaluated ==
    {Candidate(coarse_grid, i) : i \in 0..(ProductSize(coarse_grid) - 1)}
    \cup {Candidate(refine, i) : i \in 0..(ProductSize(refine) - 1)}

\* C7: the score optimize_synth_against_original returns is the maximum of
\* the scores of all candidates evaluated in the coarse and the refinement
\* pass, and the parameters it returns are those of an evaluated candidate
\* that scored it.
C7_ArgMax ==
    oresult.returned =>
        /\ \A p \in Evaluated : score_params(otarget, p) <= oresult.score
        /\ oresult.params \in Evaluated
        /\ score_params(otarget, oresult.params) = oresult.score

\* C7 witness: the optimizer returned a candidate of the refinement pass
\* that beat every candidate of the coarse pass.
C7_Witness ==
    /\ oresult.returned
    /\ \A i \in 0..(ProductSize(coarse_grid) - 1) :
         score_params(otarget, Candidate(coarse_grid, i)) < oresult.score
(***************************************************************************)
(* Claims about the refiner.                                               *)
(***************************************************************************)

\* The grid refine_tabs_with_original formats has the column count of the
\* parsed input grid, rests in the same cells and fret digits in the
\* others, and the text returned is that grid formatted.
RefinedGridFrame ==
    refined.done =>
        /\ refined.cols = cparsed.cols
        /\ \A r \in 1..6 :
             /\ Len(refined.grid[r]) = cparsed.cols
             /\ \A c \in 1..cparsed.cols :
                  /\ (refined.grid[r][c] = Rest) <=> (cparsed.grid[r][c] = Rest)
                  /\ refined.grid[r][c] # Rest =>
                        \A k \in 1..Len(refined.grid[r][c]) : IsDigit(refined.grid[r][c][k])
        /\ refined.refined_tabs_text = _format_tabs_from_grid(refined.grid, cparsed.cols)

\* C11: the tablature refine_tabs_with_original returns has the column
\* count of the parsed input grid and rests at exactly the same cells.
C11_RefinerFrame ==
    refined.done =>
        LET out == parse_tabs_text(refined.refined_tabs_text)
        IN  /\ out.ok
            /\ out.cols = cparsed.cols
            /\ \A r \in 1..6 : \A c \in 1..cparsed.cols :
                 (out.grid[r][c] = Rest) <=> (cparsed.grid[r][c] = Rest)

\* A tablature with a rest and a note was refined and the note's fret
\* changed.
RefinedWitness ==
    /\ refined.done
    /\ refined.changes_count > 0
    /\ \E r \in 1..6, c \in 1..refined.cols : refined.grid[r][c] = Rest
\* The non-rest cells of the parsed grid, rows and columns from 1.
FrettedCells == {x \in (1..6) \X (1..cparsed.cols) : cparsed.grid[x[1]][x[2]] # Rest}

\* C18: the refiner replaces a cell's fret only if the new fret's pitch
\* error against the column's target is at least 0.8 semitones smaller
\* than the old fret's; so no cell's error grows, and a cell of a column
\* without a target or with less to gain keeps its fret.
C18_Hysteresis ==
    refined.done =>
        \A x \in FrettedCells :
            LET old == int(cparsed.grid[x[1]][x[2]])
                new == int(refined.grid[x[1]][x[2]])
                target == refined.targets[x[2]]
            IN  /\ target = NaN => new = old
                /\ target # NaN =>
                     /\ new # old =>
                          PitchError(x[1], old, target) - PitchError(x[1], new, target)
                              >= MinImprovement
                     /\ PitchError(x[1], new, target) <= PitchError(x[1], old, target)
                     /\ new \in 0..refined.max_fret \/ new = old

\* C18 witness: one cell was replaced by a fret at least 0.8 semitones
\* nearer to its target, and another, whose nearest fret gains less, kept
\* its fret.
C18_Witness ==
    /\ refined.done
    /\ \E x \in FrettedCells :
         int(refined.grid[x[1]][x[2]]) # int(cparsed.grid[x[1]][x[2]])
    /\ \E x \in FrettedCells :
         LET old == int(cparsed.grid[x[1]][x[2]])
             target == refined.targets[x[2]]
         IN  /\ target # NaN
             /\ _closest_refined_fret(old, x[1], target, refined.max_fret) # old
             /\ int(refined.grid[x[1]][x[2]]) = old

(***************************************************************************)
(* Claims about the synthesizer's buffer.                                  *)
(***************************************************************************)

\* C13: after synthesize_from_tabs_text mixed the plucks of a grid with at
\* least one non-rest cell, no sample of the final buffer is above 1.0 in
\* absolute value: the buffer is divided by its peak when the peak is above
\* 1 and is as mixed otherwise.
C13_PeakAtMostOne ==
    (render.rendered /\ render.notes_count >= 1) =>
        /\ \A i \in 1..Len(render.audio) : Abs(render.audio[i]) <= One
        /\ render.peak > One =>
             /\ Peak(render.audio) = One
             /\ \A i \in 1..Len(render.audio) :
                  render.audio[i] = Scaled(render.mixed[i], One, render.peak)
        /\ render.peak <= One => render.audio = render.mixed

\* C13 witness: plucks that sound together mixed to a peak above 1.0 and
\* the buffer was scaled.
C13_Witness ==
    /\ render.rendered
    /\ render.notes_count >= 1
    /\ render.peak > One
    /\ render.audio # render.mixed

\* A single pluck was mixed: the peak is below 1.0 and the buffer is kept.
C13_WitnessQuiet ==
    /\ render.rendered
    /\ render.notes_count = 1
    /\ render.peak < One
    /\ render.peak > 0
(***************************************************************************)
(* Claims about the two searches.                                          *)
(***************************************************************************)
\* The k-th candidate (from 1) the optimizer evaluates, the coarse pass
\* before the refinement pass.
OptAt(k) ==
    IF k <= ProductSize(coarse_grid) THEN Candidate(coarse_grid, k - 1)
    ELSE Candidate(refine, k - ProductSize(coarse_grid) - 1)

\* The first of the first n candidates of the optimizer to attain their
\* maximum score.
OptFirstBest(n) ==
    LET top == SetMax({score_params(otarget, OptAt(k)) : k \in 1..n})
    IN  OptAt(SetMin({k \in 1..n : score_params(otarget, OptAt(k)) = top}))

\* The first of the first n candidates of find_best_extraction to attain
\* their maximum score.
TuneFirstBest(n) ==
    LET Score(k) == TuneScore(NoteCount(tprofile, TuneCandidate(k - 1)), tpreview)
        top == SetMax({Score(k) : k \in 1..n})
    IN  TuneCandidate(SetMin({k \in 1..n : Score(k) = top}) - 1)

\* C15: in find_best_extraction and in both passes of
\* optimize_synth_against_original the candidate kept is the earliest in
\* enumeration order to attain the maximum score: an equal score never
\* replaces the best, not even that of a refinement candidate that equals
\* the best of the coarse pass.
C15_EarliestKept ==
    /\ (tunepc \in {"search", "done"} /\ ti > 0) => tbest.params = TuneFirstBest(ti)
    /\ tresult.returned => tresult.params = TuneFirstBest(TuneSize)
    /\ (opc = "refine" /\ oi = 0) => best_params = OptFirstBest(ProductSize(coarse_grid))
    /\ oresult.returned =>
         oresult.params = OptFirstBest(ProductSize(coarse_grid) + ProductSize(refine))

\* C15 witness: the optimizer returned the best of the coarse pass although
\* a later candidate of the coarse pass and a candidate of the refinement
\* pass scored the same.
C15_Witness ==
    /\ oresult.returned
    /\ \E i \in 0..(ProductSize(coarse_grid) - 1) :
         /\ Candidate(coarse_grid, i) = oresult.params
         /\ \E j \in (i + 1)..(ProductSize(coarse_grid) - 1) :
              score_params(otarget, Candidate(coarse_grid, j)) = oresult.score
    /\ \E i \in 0..(ProductSize(refine) - 1) :
         /\ Candidate(refine, i) # oresult.params
         /\ score_params(otarget, Candidate(refine, i)) = oresult.score

\* find_best_extraction returned its first candidate although a later one
\* scored the same.
C15_WitnessTune ==
    /\ tresult.returned
    /\ tresult.params = TuneCandidate(0)
    /\ \E k \in 1..(TuneSize - 1) :
         TuneScore(NoteCount(tprofile, TuneCandidate(k)), tpreview) = tresult.score
(***************************************************************************)
(* Claims about the smoother.                                              *)
(***************************************************************************)

\* C17: _smooth_f0 returns a track of the length of its input whose NaN
\* frames are exactly the input's frames without pitch; an empty track and
\* a track without any pitch are returned unchanged.
C17_MaskPreserved ==
    smpc = "done" =>
        /\ Len(smoothed) = Len(f0)
        /\ \A i \in 1..Len(f0) : (smoothed[i] = NaN) <=> (f0[i] = NaN)
        /\ (\A i \in 1..Len(f0) : f0[i] = NaN) => smoothed = f0

\* C17 witness: a track with frames with and without pitch was smoothed
\* and a frame with pitch changed.
C17_Witness ==
    /\ smpc = "done"
    /\ \E i \in 1..Len(f0) : f0[i] = NaN
    /\ \E i \in 1..Len(f0) : f0[i] # NaN /\ smoothed[i] # f0[i]

(***************************************************************************)
(* Claims about the lists of the refinement pass.                          *)
(***************************************************************************)
Dims == {"step_seconds", "note_seconds", "decay", "gain", "transpose_semitones"}

Values(xs) == {xs[i] : i \in DOMAIN xs}

\* The spacing of a list of the coarse pass: the smallest step between
\* neighbouring values.
CoarseSpacing(d) ==
    SetMin({coarse_grid[d][i + 1] - coarse_grid[d][i] : i \in 1..(Len(coarse_grid[d]) - 1)})

\* The offsets the refinement lists are built with, and the bounds their
\* ends are cut to (the transposition has none).
refine_offsets ==
    [step_seconds |-> 15, note_seconds |-> 20, decay |-> 1, gain |-> 60,
     transpose_semitones |-> 1]

valid_range ==
    [step_seconds |-> 80..220, note_seconds |-> 100..300, decay |-> 990..999,
     gain |-> 150..650]

\* C20 as stated: when the refinement pass begins, every value of each of
\* its five lists differs from the coarse winner's value by at most half the
\* spacing of the coarse list of that dimension, and lies in the
\* dimension's valid range.
C20_HalfSpacing ==
    (opc = "refine" /\ oi = 0) =>
        \A d \in Dims : \A v \in Values(refine[d]) :
            /\ 2 * Abs(v - best_params[d]) <= CoarseSpacing(d)
            /\ d \in DOMAIN valid_range => v \in valid_range[d]

\* C20, amended: when the refinement pass begins, every value of each of its
\* five lists differs from the coarse winner's value by at most the fixed
\* offset of its dimension (15 ms, 20 ms, 0.001, 0.06, one semitone), the
\* winner's value is among them, the values of step, note, decay and gain
\* lie in their valid ranges, and the parameters returned are within these
\* offsets of the first best candidate of the coarse pass.
C20_RefineOffsets ==
    /\ (opc = "refine" /\ oi = 0) =>
         \A d \in Dims :
            /\ best_params[d] \in Values(refine[d])
            /\ \A v \in Values(refine[d]) :
                 /\ Abs(v - best_params[d]) <= refine_offsets[d]
                 /\ d \in DOMAIN valid_range => v \in valid_range[d]
    /\ oresult.returned =>
         LET winner == OptFirstBest(ProductSize(coarse_grid))
         IN  \A d \in Dims : Abs(oresult.params[d] - winner[d]) <= refine_offsets[d]

\* C20 witness: the refinement pass begins around a coarse winner of gain
\* 0.28 and transposition -2: its gains are 0.06 apart, more than half the
\* coarse spacing 0.10, and its transpositions a whole semitone apart and
\* down to -3.
C20_Witness ==
    /\ opc = "refine"
    /\ oi = 0
    /\ best_params.gain = 280
    /\ best_params.transpose_semitones = -2
    /\ refine.gain = <<220, 280, 340>>
    /\ refine.transpose_semitones = <<-3, -2, -1>>

(***************************************************************************)
(* Claims about the fields of a note.                                      *)
(***************************************************************************)
\* C21: every note returned by extract_notes_from_audio has, as its midi
\* field, the MIDI number of its pitch label.
C21_LabelMidiAgree ==
    segpc = "done" =>
        \A k \in 1..Len(notes) : notes[k].midi = note_to_midi(notes[k].note)
(***************************************************************************)
(* Claims about refining a refined tablature.                              *)
(***************************************************************************)
\* The non-rest cells of the grid the second call parsed.
RefrettedCells == {x \in (1..6) \X (1..reparsed.cols) : reparsed.grid[x[1]][x[2]] # Rest}

\* C22 as stated: refine_tabs_with_original run on its own output with the
\* same pitch track, step and max_fret changes no cell: it reports no
\* change and returns the grid it was given.
C22_Stable ==
    cpc = "rerun" =>
        /\ rerun.changes_count = 0
        /\ rerun.grid = reparsed.grid

\* C22, amended: the second call reads the frets the first call wrote, and
\* changes a cell only if the first call moved it by the whole twelve frets
\* of its search window; the cell's pitch error then falls again by at
\* least 0.8 semitones, so no cell returns to a fret it had.  Every other
\* cell is left as the first call left it.
C22_SecondRun ==
    cpc = "rerun" =>
        \A x \in RefrettedCells :
            LET first == int(cparsed.grid[x[1]][x[2]])
                second == int(reparsed.grid[x[1]][x[2]])
                third == int(rerun.grid[x[1]][x[2]])
                target == refined.targets[x[2]]
            IN  /\ second = int(refined.grid[x[1]][x[2]])
                /\ third # second =>
                     /\ Abs(second - first) = 12
                     /\ PitchError(x[1], second, target) - PitchError(x[1], third, target)
                            >= MinImprovement
                     /\ third # first

\* C22 witness: the first call changed a fret by less than twelve and the
\* second call changed nothing.
C22_Witness ==
    /\ cpc = "rerun"
    /\ rerun.changes_count = 0
    /\ \E x \in RefrettedCells :
         /\ int(refined.grid[x[1]][x[2]]) # int(cparsed.grid[x[1]][x[2]])
         /\ Abs(int(refined.grid[x[1]][x[2]]) - int(cparsed.grid[x[1]][x[2]])) < 12

\* The first call moved a fret by twelve towards a pitch further away, and
\* the second call moved it again.
C22_WitnessDrift ==
    /\ cpc = "rerun"
    /\ rerun.changes_count > 0
(***************************************************************************)
(* Claims about what a merged note covers.                                 *)
(***************************************************************************)
\* The label of the k-th frame under the extraction's voicing threshold.
LabelAt(k) == FrameLabel(frames[k], segparams.min_voiced_prob)

\* The frames a returned note spans: from its start up to, not including,
\* its end.
Covered(n) ==
    {k \in 1..Len(frames) :
        notes[n].start_time <= FrameTime(k) /\ FrameTime(k) < notes[n].end_time}

\* C23 as stated: a returned note covers, besides the frames of its own
\* label, only unvoiced frames; no frame with another pitch label lies
\* between two stretches fused into one note.
C23_OnlySilenceBridged ==
    segpc = "done" =>
        \A n \in 1..Len(notes) : \A k \in Covered(n) :
            LabelAt(k) \in {notes[n].note, None}

\* C23, amended: a frame of another label or of no label that a returned
\* note covers lies in a gap of at most merge_gap between two stretches of
\* the note's label (from the first frame after the one stretch to the first
\* frame of the next), and a frame of another label belongs to a run of that
\* label shorter than min_duration, which was not emitted.
C23_ShortGapsBridged ==
    segpc = "done" =>
        \A n \in 1..Len(notes) : \A k \in Covered(n) :
            LabelAt(k) # notes[n].note =>
                LET own(j) == LabelAt(j) = notes[n].note
                    same(j) == LabelAt(j) = LabelAt(k)
                    lo == SetMin({a \in 1..k : \A j \in a..k : ~own(j)})
                    after == {b \in (k + 1)..Len(frames) : own(b)}
                    first == SetMin({a \in 1..k : \A j \in a..k : same(j)})
                    changed == {b \in (k + 1)..Len(frames) : ~same(b)}
                IN  /\ after # {}
                    /\ FrameTime(SetMin(after)) - FrameTime(lo) <= segparams.merge_gap
                    /\ LabelAt(k) # None =>
                         FrameTime(SetMin(changed)) - FrameTime(first)
                             < segparams.min_duration

\* C23 witness: a returned note covers a voiced frame of another pitch
\* label, whose run was too short to be emitted.
C23_Witness ==
    /\ segpc = "done"
    /\ \E n \in 1..Len(notes) : \E k \in Covered(n) :
         LabelAt(k) \notin {notes[n].note, None}

\* A returned note covers an unvoiced frame.
C23_WitnessSilence ==
    /\ segpc = "done"
    /\ \E n \in 1..Len(notes) : \E k \in Covered(n) : LabelAt(k) = None
(***************************************************************************)
(* Claims about the text of the generated tablature.                       *)
(***************************************************************************)
\* The notes generate_tabs placed (those with a name), in order.
PlacedNotes == SelectSeq(tnotes, LAMBDA n : n.note # None)

\* Column c shows the c-th placed note, on its string, and rests elsewhere.
OneColumnPerNote ==
    /\ Len(display.times) = Len(placed)
    /\ \A c \in 1..Len(placed) : \A s \in 1..6 :
         display.rows[s][c] =
             IF s = placed[c].string THEN Str(placed[c].fret) ELSE <<"-">>

\* C24: for a time-ordered list of notes with pairwise distinct start times
\* format_tabs_as_text emits one column per placed note, holding that
\* note's fret on its string and rests on the other five rows.
C24_OneColumnPerNote ==
    (/\ tpc = "formatted"
     /\ \A i, j \in 1..Len(PlacedNotes) :
          i < j => PlacedNotes[i].start_time < PlacedNotes[j].start_time)
    => OneColumnPerNote

\* The same for notes whose start times are at least 0.01 s apart.
SpacedOneColumnPerNote ==
    (/\ tpc = "formatted"
     /\ \A i, j \in 1..Len(PlacedNotes) :
          i < j => PlacedNotes[j].start_time - PlacedNotes[i].start_time >= TimeTolerance)
    => OneColumnPerNote

\* Three notes at least 0.01 s apart were formatted.
SpacedWitness ==
    /\ tpc = "formatted"
    /\ Len(placed) = 3
    /\ \A i \in 1..2 :
         PlacedNotes[i + 1].start_time - PlacedNotes[i].start_time >= TimeTolerance
(***************************************************************************)
(* Claims about the TuneResult.                                            *)
(***************************************************************************)
\* C25: the score of the TuneResult returned by find_best_extraction is
\* note_count - max(0, notes_per_second - 2.0) * 120 of the notes it
\* returns, the notes of the whole recording (both sides times the two
\* lengths in seconds).
C25_ScoreOfReturnedNotes ==
    tresult.returned =>
        tresult.score * taudio = TuneScore(tresult.notes_count, taudio) * tpreview

\* For a recording no longer than the preview the score is that of the
\* notes returned.
ShortAudioScore ==
    (tresult.returned /\ taudio <= preview_seconds) =>
        tresult.score = TuneScore(tresult.notes_count, taudio)

\* A result with notes and a density penalty was returned for a recording
\* no longer than the preview.
ShortAudioWitness ==
    /\ tresult.returned
    /\ taudio <= preview_seconds
    /\ tresult.notes_count > 2 * taudio

====
